---- MODULE Spec2Model ----
(***************************************************************************)
(* Model of zedex: the acquisition orchestrator (commands/get.rs,          *)
(* zed/downloader.rs, zed/extension.rs), the catalog builder               *)
(* (download_extension_index), the release download                       *)
(* (download_zed_release), the version tracker, and the mirror server:     *)
(* its routes (zed/server/mod.rs) and its handlers for extensions,         *)
(* releases and the catch-all proxy (zed/server/handlers/extensions.rs,    *)
(* releases.rs, proxy.rs), the health check (zed/health.rs) and the order  *)
(* of release Versions (zed/version.rs).                                   *)
(***************************************************************************)
EXTENDS Integers, Sequences, FiniteSets, TLC

(***************************************************************************)
(* Bounds of the model.                                                    *)
(***************************************************************************)
\* number of orchestration runs (zedex get all-extensions) that are explored
MaxRuns == 2
\* number of runs explored when every run is a latest-only run
MaxLatestRuns == 3
\* number of entries of an extensions.json the mirror server reads
MaxCatalogLen == 2
\* number of entries upstream returns to one catalog fetch
MaxFetchLen == 2
\* number of runs explored when the termination of a run is checked
MaxLiveRuns == 1

(***************************************************************************)
(* Version strings.  A string is a sequence of one-character strings, so   *)
(* that parsing and lexicographic order are computed, not assumed.         *)
(***************************************************************************)
V1_2_0 == <<"1", ".", "2", ".", "0">>
V1_10_0 == <<"1", ".", "1", "0", ".", "0">>
V1_2 == <<"1", ".", "2">>

\* the extension ids of the catalog, in catalog (extensions.json) order
IdOrder == <<"a", "b">>
Ids == {IdOrder[i] : i \in 1..Len(IdOrder)}

\* the versions upstream publishes for the extensions of the catalog
AcqVersions == {V1_2_0, V1_10_0}

\* the answer of GET <api>/extensions/{id}: all versions, newest first
UpstreamVersionList == <<V1_10_0, V1_2_0>>

\* a file that does not exist (no version string is empty)
NoFile == <<>>

(***************************************************************************)
(* ExtensionVersionTracker (zed/extension.rs): id -> version, a function   *)
(* whose domain is the set of tracked ids.                                 *)
(***************************************************************************)
EmptyTracker == [k \in {} |-> NoFile]

\* ExtensionVersionTracker::update_extension
update_extension(tracker, id, version) ==
    [k \in DOMAIN tracker \cup {id} |-> IF k = id THEN version ELSE tracker[k]]

merge_KeepFirst(self, other) ==
    [k \in DOMAIN self \cup DOMAIN other |->
        IF k \in DOMAIN self THEN self[k] ELSE other[k]]

\* ExtensionVersionTracker::merge
merge(self, other) ==
    [k \in DOMAIN self \cup DOMAIN other |->
        IF k \in DOMAIN other THEN other[k] ELSE self[k]]

has_newer_version_OnlyUntracked(tracker, id, version) == id \notin DOMAIN tracker

\* ExtensionVersionTracker::has_newer_version
has_newer_version(tracker, id, version) ==
    IF id \in DOMAIN tracker THEN tracker[id] # version ELSE TRUE

(***************************************************************************)
(* State.                                                                  *)
(***************************************************************************)
VARIABLES
    catalog,         \* extensions.json: id -> latest version
    dirs,            \* the ids whose directory <id>/ exists
    latestFile,      \* <id>/<id>.tgz: the version whose archive it holds, or NoFile
    verFiles,        \* the <<id, version>> whose <id>/<id>-<version>.tgz exists
    versionsJson,    \* <id>/versions.json: [state, data]
    trackerFile,     \* version_tracker.json: [exists, data]
    phase,           \* "idle", "workers" (inside download_extensions), "returned"
    opts,            \* DownloadOptions of the run
    runs,            \* number of runs started
    loaded,          \* handle_all_extensions: the tracker loaded from disk
    version_tracker, \* download_extensions: the tracker it merges into and returns
    w,               \* the per-extension tasks running download_extension
    permits,         \* free permits of the semaphore (throttled mode)
    mergeIdx,        \* index of the next handle the orchestrator awaits
    hist,            \* what the previous run did (history variable)
    legacyFiles,     \* the ids whose flat legacy file <id>.tar.gz exists
    unreadable,      \* the paths that exist and cannot be read
    proxy_mode,      \* ServerConfig.proxy_mode
    response,        \* the last request of the mirror server and its response
    extensionsJson,  \* extensions.json as the server and the catalog builder
                     \* read and write it: [state, data], data the entries
    config,          \* ServerConfig: [releases_dir, domain]
    manifests,       \* <releases_dir>/<asset>-<os>-<arch>.json: [state, data]
    releaseFiles,    \* the other files under releases_dir: path -> state
    ix,              \* download_extension_index: the refresh that is running
    trk,             \* the trackers a tracker operation is applied to
    rel,             \* download_zed_release: the run and the archives it wrote
    ver              \* zed/version.rs: the Versions compared and the results

vars == <<catalog, dirs, latestFile, verFiles, versionsJson, trackerFile, phase,
          opts, runs, loaded, version_tracker, w, permits, mergeIdx, hist,
          legacyFiles, unreadable, proxy_mode, response, extensionsJson,
          config, manifests, releaseFiles, ix, trk, rel, ver>>

\* the state the acquisition does not touch.  extensions.json has two views:
\* the acquisition reads the version of every id (catalog), the server and
\* the catalog builder the whole entries (extensionsJson); a specification
\* moves one of the two and holds the other fixed.
srvVars == <<legacyFiles, unreadable, proxy_mode, response, extensionsJson,
             config, manifests, releaseFiles, ix, trk, rel, ver>>

\* the state of the acquisition
acqVars == <<catalog, dirs, latestFile, verFiles, versionsJson, trackerFile, phase,
             opts, runs, loaded, version_tracker, w, permits, mergeIdx, hist>>

\* a JSON file that is missing, and one whose content does not parse
AbsentJson == [state |-> "absent", data |-> <<>>]
MalformedJson == [state |-> "malformed", data |-> <<>>]

\* Option::None of ServerConfig.domain
NoDomain == [some |-> FALSE, s |-> ""]

\* ServerConfig as commands/serve.rs builds it: releases_dir is always Some
DefaultConfig == [releases_dir |-> TRUE, domain |-> NoDomain]

\* the platforms (asset, os, arch) of the release manifests
Platforms == {<<"zed", "macos", "x86_64">>, <<"zed", "linux", "x86_64">>}

\* A path is a sequence of segments, a segment the sequence of its parts
\* between the dots: 0.1.0 and zed.tar.gz
SegVersion == <<"0", "1", "0">>
SegFile == <<"zed", "tar", "gz">>

\* the paths below releases_dir the server looks up, apart from the manifests:
\* <version>/<filename>, zed/zed-<version>-<name>.gz,
\* zed-remote-server/zed-remote-server-<version>-<name>.gz and a deeper path
\* (a formatted name is the sequence of the pieces it is formatted from, its
\* last piece the extension)
ReleasePaths ==
    {<<SegVersion, SegFile>>,
     <<<<"zed">>, <<"zed", "-">> \o SegVersion \o <<"-", "zed", "gz">>>>,
     <<<<"zed-remote-server">>,
       <<"zed-remote-server", "-">> \o SegVersion \o <<"-", "zed", "gz">>>>,
     <<<<"stable">>, SegVersion, SegFile, <<"x">>>>}

\* no catalog refresh is running; fetched is the list of the fetch results the
\* refresh has merged so far
IdleIndex ==
    [pc |-> "idle", map |-> <<>>, caps |-> {}, todo |-> <<>>, collected |-> <<>>,
     result |-> "none", fetched |-> <<>>]

\* the versions upstream publishes as the latest release
ReleaseVersions == {SegVersion, <<"0", "2", "0">>}

\* no release download is running and no release archive is cached: todo
\* are the platforms still to be processed, version the version of the
\* manifest whose archive is requested, archives the content of every
\* <releases_dir>/<version>/<asset>-<os>-<arch>.tar.gz
IdleRelease ==
    [pc |-> "idle", todo |-> <<>>, version |-> <<>>,
     archives |-> [f \in ReleaseVersions \X Platforms |-> "absent"]]

\* no Version has been compared: a, b and c are the version strings of three
\* Versions, cmp the results of compare and eq the result of ==
IdleVersions ==
    [a |-> <<>>, b |-> <<>>, c |-> <<>>,
     cmp |-> [done |-> FALSE, ab |-> "Equal", ba |-> "Equal", bc |-> "Equal",
              ac |-> "Equal"],
     eq |-> [done |-> FALSE, ab |-> FALSE]]

\* no tracker operation has been applied
NoTrackers ==
    [op |-> "none", before |-> <<>>, self |-> <<>>, other |-> <<>>,
     ext |-> <<"", <<>>>>, out |-> FALSE, n |-> 0]

\* the state outside the acquisition while an acquisition runs
IdleServerState ==
    /\ extensionsJson = AbsentJson
    /\ config = DefaultConfig
    /\ manifests = [p \in Platforms |-> AbsentJson]
    /\ releaseFiles = [p \in ReleasePaths |-> "absent"]
    /\ ix = IdleIndex
    /\ rel = IdleRelease
    /\ ver = IdleVersions
    /\ trk = NoTrackers

\* no request has been answered yet
NoRequest == <<"none", "", NoFile>>
\* no answer of upstream: upstream was not contacted
NoAnswer ==
    [kind |-> "none", status |-> 0, content_type |-> "", headers |-> {},
     body |-> NoRequest]
NoResponse ==
    [req |-> NoRequest,
     res |-> [status |-> 0, content_type |-> "", body |-> NoRequest,
              upstream |-> NoRequest],
     answer |-> NoAnswer]

\* const MAX_CONCURRENT_DOWNLOADS: usize = 1;
MAX_CONCURRENT_DOWNLOADS == 1

\* DownloadOptions; rate_limit is 0 (no sleep) or 1 second
Options == [async_mode : BOOLEAN, all_versions : BOOLEAN, rate_limit : {0, 1}]

\* DownloadOptions::default
DefaultOptions == [async_mode |-> FALSE, all_versions |-> FALSE, rate_limit |-> 0]

IdleWorker ==
    [pc |-> "idle", tracker |-> EmptyTracker, res |-> "none", permit |-> FALSE,
     versions |-> <<>>, idx |-> 0, log |-> <<>>]

NoHist ==
    [valid |-> FALSE, killed |-> FALSE, opts |-> DefaultOptions, written |-> {},
     allOk |-> FALSE, catalogSame |-> FALSE, latestOnlySoFar |-> TRUE]

\* the state of a fresh installation: an empty cache, a catalog fetched once
Init ==
    /\ catalog \in [Ids -> AcqVersions]
    /\ dirs = {}
    /\ latestFile = [i \in Ids |-> NoFile]
    /\ verFiles = {}
    /\ versionsJson = [i \in Ids |-> [state |-> "absent", data |-> <<>>]]
    /\ trackerFile = [exists |-> FALSE, data |-> EmptyTracker]
    /\ phase = "idle"
    /\ opts = DefaultOptions
    /\ runs = 0
    /\ loaded = EmptyTracker
    /\ version_tracker = EmptyTracker
    /\ w = [i \in Ids |-> IdleWorker]
    /\ permits = MAX_CONCURRENT_DOWNLOADS
    /\ mergeIdx = 1
    /\ hist = NoHist
    /\ legacyFiles = {}
    /\ unreadable = {}
    /\ proxy_mode = FALSE
    /\ response = NoResponse
    /\ IdleServerState

(***************************************************************************)
(* commands/get.rs                                                         *)
(***************************************************************************)
\* load_version_tracker: a missing file gives an empty tracker
load_version_tracker ==
    IF trackerFile.exists THEN trackerFile.data ELSE EmptyTracker

\* the events of the running tasks (history)
Events(id) == {w[id].log[k] : k \in 1..Len(w[id].log)}
Downloads(id) == {e[2] : e \in {x \in Events(id) : x[1] = "download"}}
Written(id) == {e[2] : e \in {x \in Events(id) : x[1] = "written"}}
Failed(id) == {e[2] : e \in {x \in Events(id) : x[1] = "failed"}}

RunSummary(wasKilled) ==
    [valid |-> TRUE, killed |-> wasKilled, opts |-> opts,
     written |-> UNION {{<<i, v>> : v \in Written(i)} : i \in Ids},
     allOk |-> \A i \in Ids : w[i].res = "ok" /\ Failed(i) = {}
                              /\ <<"mkdir_failed", NoFile>> \notin Events(i),
     catalogSame |-> TRUE,
     latestOnlySoFar |-> hist.latestOnlySoFar /\ ~opts.all_versions]

\* handle_all_extensions up to the first await of download_extensions: load the
\* catalog and the tracker, hand every task a clone of the tracker
StartRun(o) ==
    /\ phase = "idle"
    /\ o.all_versions \/ o.rate_limit = 0   \* rate_limit is read in all_versions mode only
    /\ hist.valid => o = hist.opts          \* the same command line at every run
    /\ phase' = "workers"
    /\ opts' = o
    /\ runs' = runs + 1
    /\ loaded' = load_version_tracker
    /\ version_tracker' = load_version_tracker
    /\ w' = [i \in Ids |->
                [IdleWorker EXCEPT !.pc = IF o.async_mode THEN "start" ELSE "acquire",
                                   !.tracker = load_version_tracker]]
    /\ permits' = MAX_CONCURRENT_DOWNLOADS
    /\ mergeIdx' = 1
    /\ UNCHANGED srvVars
    /\ UNCHANGED <<catalog, dirs, latestFile, verFiles, versionsJson, trackerFile, hist>>

(***************************************************************************)
(* zed/downloader.rs: download_extension, one task per extension.  A task  *)
(* gives way to the others at its awaits only; an action is the code from  *)
(* one await to the next.                                                  *)
(***************************************************************************)
Log(id, kind, version) == Append(w[id].log, <<kind, version>>)

Finish_KeepsPermit(id, res, tracker, log) ==
    /\ w' = [w EXCEPT ![id] = [@ EXCEPT !.pc = "done", !.res = res,
                                        !.tracker = tracker, !.log = log]]
    /\ UNCHANGED permits

\* the task ends: download_extension returns res, the permit is dropped
Finish(id, res, tracker, log) ==
    /\ w' = [w EXCEPT ![id] = [@ EXCEPT !.pc = "done", !.res = res,
                                        !.tracker = tracker, !.log = log,
                                        !.permit = FALSE]]
    /\ permits' = IF w[id].permit THEN permits + 1 ELSE permits

Acquire_NoLimit(id) ==
    /\ phase = "workers"
    /\ w[id].pc = "acquire"
    /\ permits' = permits - 1
    /\ w' = [w EXCEPT ![id] = [@ EXCEPT !.pc = "start", !.permit = TRUE]]
    /\ UNCHANGED srvVars
    /\ UNCHANGED <<catalog, dirs, latestFile, verFiles, versionsJson, trackerFile,
                   phase, opts, runs, loaded, version_tracker, mergeIdx, hist>>

\* let _permit = semaphore.acquire().await.unwrap();
Acquire(id) ==
    /\ phase = "workers"
    /\ w[id].pc = "acquire"
    /\ permits > 0
    /\ permits' = permits - 1
    /\ w' = [w EXCEPT ![id] = [@ EXCEPT !.pc = "start", !.permit = TRUE]]
    /\ UNCHANGED srvVars
    /\ UNCHANGED <<catalog, dirs, latestFile, verFiles, versionsJson, trackerFile,
                   phase, opts, runs, loaded, version_tracker, mergeIdx, hist>>

ext_dir_Shared(id) == IdOrder[1]

\* let ext_dir = output_dir.join(&id): the directory of the extension, which
\* holds every file download_extension creates or writes
ext_dir(id) == id

SkipLatest_FileOnly(id, tracker) == latestFile[id] # NoFile

\* the skip test of the latest-only branch
SkipLatest(id, tracker) ==
    latestFile[id] # NoFile /\ ~has_newer_version(tracker, id, catalog[id])

\* download_extension from its start to its first await: create the directory,
\* then request the version list (all_versions) or test whether the latest
\* archive is to be downloaded
Begin(id) ==
    /\ phase = "workers"
    /\ w[id].pc = "start"
    /\ \E mkdirOk \in BOOLEAN :
        IF id \notin dirs /\ ~mkdirOk
        THEN /\ Finish(id, "ok", w[id].tracker, Log(id, "mkdir_failed", NoFile))
             /\ UNCHANGED dirs
        ELSE /\ dirs' = dirs \cup {ext_dir(id)}
             /\ IF opts.all_versions
                THEN /\ w' = [w EXCEPT ![id] = [@ EXCEPT !.pc = "fetching"]]
                     /\ UNCHANGED permits
                ELSE IF SkipLatest(id, w[id].tracker)
                THEN Finish(id, "ok", w[id].tracker, Log(id, "skip", catalog[id]))
                ELSE /\ w' = [w EXCEPT ![id] = [@ EXCEPT !.pc = "downloading",
                                      !.log = Log(id, "download", catalog[id])]]
                     /\ UNCHANGED permits
    /\ UNCHANGED srvVars
    /\ UNCHANGED <<catalog, latestFile, verFiles, versionsJson, trackerFile,
                   phase, opts, runs, loaded, version_tracker, mergeIdx, hist>>

\* client.get_extension_versions(&id).await? and the write of versions.json:
\* either failure makes download_extension return Err
FetchVersionsOf(id, versions) ==
    /\ phase = "workers"
    /\ w[id].pc = "fetching"
    /\ \E outcome \in {"fetch_err", "write_err", "ok"} :
        IF outcome = "ok"
        THEN /\ versionsJson' = [versionsJson EXCEPT ![ext_dir(id)] =
                                    [state |-> "ok", data |-> versions]]
             /\ w' = [w EXCEPT ![id] = [@ EXCEPT !.pc = "loop", !.idx = 1,
                                                 !.versions = versions]]
             /\ UNCHANGED permits
        ELSE /\ Finish(id, "err", w[id].tracker, Log(id, outcome, NoFile))
             /\ UNCHANGED versionsJson
    /\ UNCHANGED srvVars
    /\ UNCHANGED <<catalog, dirs, latestFile, verFiles, trackerFile,
                   phase, opts, runs, loaded, version_tracker, mergeIdx, hist>>

\* the task asks for the version list while upstream lists UpstreamVersionList
FetchVersions(id) == FetchVersionsOf(id, UpstreamVersionList)

\* `if file_path.exists()` of the all_versions loop
SkipVersion_ByTracker(id, version, tracker) ==
    <<id, version>> \in verFiles /\ ~has_newer_version(tracker, id, version)

SkipVersion_Never(id, version, tracker) == FALSE

SkipVersion(id, version, tracker) == <<id, version>> \in verFiles

\* the head of `for version in versions.iter()`: leave the loop, skip a version
\* whose file exists (recording it), or request its archive
LoopStep(id) ==
    /\ phase = "workers"
    /\ w[id].pc = "loop"
    /\ IF w[id].idx > Len(w[id].versions)
       THEN Finish(id, "ok", w[id].tracker, w[id].log)
       ELSE LET v == w[id].versions[w[id].idx] IN
            /\ UNCHANGED permits
            /\ IF SkipVersion(id, v, w[id].tracker)
               THEN w' = [w EXCEPT ![id] = [@ EXCEPT
                            !.tracker = update_extension(w[id].tracker, id, v),
                            !.idx = @ + 1,
                            !.log = Log(id, "skip", v)]]
               ELSE w' = [w EXCEPT ![id] = [@ EXCEPT !.pc = "downloading",
                                                     !.log = Log(id, "download", v)]]
    /\ UNCHANGED srvVars
    /\ UNCHANGED <<catalog, dirs, latestFile, verFiles, versionsJson, trackerFile,
                   phase, opts, runs, loaded, version_tracker, mergeIdx, hist>>

TrackerAfter_Always(tracker, id, version, outcome) ==
    update_extension(tracker, id, version)

\* what the tracker of a task is after the archive request has been answered
TrackerAfter(tracker, id, version, outcome) ==
    IF outcome = "ok" THEN update_extension(tracker, id, version) ELSE tracker

\* download_extension_version_with_progress(..).await and std::fs::write
DownloadDone(id) ==
    /\ phase = "workers"
    /\ w[id].pc = "downloading"
    /\ \E outcome \in {"http_err", "write_err", "ok"} :
        LET v == IF opts.all_versions THEN w[id].versions[w[id].idx] ELSE catalog[id]
            tr == TrackerAfter(w[id].tracker, id, v, outcome)
            lg == Log(id, IF outcome = "ok" THEN "written" ELSE "failed", v)
        IN  IF opts.all_versions
            THEN /\ verFiles' = IF outcome = "ok"
                                THEN verFiles \cup {<<ext_dir(id), v>>}
                                ELSE verFiles
                 /\ UNCHANGED <<latestFile, permits>>
                 /\ w' = [w EXCEPT ![id] = [@ EXCEPT
                            !.tracker = tr, !.log = lg,
                            !.pc = IF opts.rate_limit > 0 THEN "sleeping" ELSE "loop",
                            !.idx = IF opts.rate_limit > 0 THEN @ ELSE @ + 1]]
            ELSE /\ latestFile' = IF outcome = "ok"
                                  THEN [latestFile EXCEPT ![ext_dir(id)] = v]
                                  ELSE latestFile
                 /\ UNCHANGED verFiles
                 /\ Finish(id, "ok", tr, lg)
    /\ UNCHANGED srvVars
    /\ UNCHANGED <<catalog, dirs, versionsJson, trackerFile,
                   phase, opts, runs, loaded, version_tracker, mergeIdx, hist>>

\* tokio::time::sleep(Duration::from_secs(rate_limit)).await is over
Wake(id) ==
    /\ phase = "workers"
    /\ w[id].pc = "sleeping"
    /\ w' = [w EXCEPT ![id] = [@ EXCEPT !.pc = "loop", !.idx = @ + 1,
                                        !.log = Log(id, "sleep", w[id].versions[w[id].idx])]]
    /\ UNCHANGED srvVars
    /\ UNCHANGED <<catalog, dirs, latestFile, verFiles, versionsJson, trackerFile,
                   phase, opts, runs, loaded, version_tracker, permits, mergeIdx, hist>>

(***************************************************************************)
(* zed/downloader.rs: download_extensions, the orchestrator.               *)
(***************************************************************************)
NumExt == Len(IdOrder)

\* `if let Ok(tracker) = result { version_tracker.merge(tracker); }`
MergeResult(tracker, id) ==
    IF w[id].res = "ok" THEN merge(tracker, w[id].tracker) ELSE tracker

\* the results k..NumExt merged in catalog order
RECURSIVE MergeFrom(_, _)
MergeFrom(tracker, k) ==
    IF k > NumExt THEN tracker
    ELSE MergeFrom(MergeResult(tracker, IdOrder[k]), k + 1)

MergeHandle_NoWait ==
    /\ phase = "workers"
    /\ ~opts.async_mode
    /\ mergeIdx <= NumExt
    /\ version_tracker' = MergeResult(version_tracker, IdOrder[mergeIdx])
    /\ mergeIdx' = mergeIdx + 1
    /\ phase' = IF mergeIdx = NumExt THEN "returned" ELSE "workers"
    /\ UNCHANGED srvVars
    /\ UNCHANGED <<catalog, dirs, latestFile, verFiles, versionsJson, trackerFile,
                   opts, runs, loaded, w, permits, hist>>

\* throttled mode: `for handle in handles { if let Ok(Ok(tracker)) = handle.await
\* { version_tracker.merge(tracker); } }`, one handle per step; after the last
\* handle download_extensions returns Ok(version_tracker)
MergeHandle ==
    /\ phase = "workers"
    /\ ~opts.async_mode
    /\ mergeIdx <= NumExt
    /\ w[IdOrder[mergeIdx]].pc = "done"
    /\ version_tracker' = MergeResult(version_tracker, IdOrder[mergeIdx])
    /\ mergeIdx' = mergeIdx + 1
    /\ phase' = IF mergeIdx = NumExt THEN "returned" ELSE "workers"
    /\ UNCHANGED srvVars
    /\ UNCHANGED <<catalog, dirs, latestFile, verFiles, versionsJson, trackerFile,
                   opts, runs, loaded, w, permits, hist>>

\* async mode: future::join_all(futures).await, then the results are merged in
\* catalog order and download_extensions returns Ok(version_tracker)
JoinAll ==
    /\ phase = "workers"
    /\ opts.async_mode
    /\ \A i \in Ids : w[i].pc = "done"
    /\ version_tracker' = MergeFrom(version_tracker, 1)
    /\ mergeIdx' = NumExt + 1
    /\ phase' = "returned"
    /\ UNCHANGED srvVars
    /\ UNCHANGED <<catalog, dirs, latestFile, verFiles, versionsJson, trackerFile,
                   opts, runs, loaded, w, permits, hist>>

\* the process state of a run is gone when the run ends
EndOfRun ==
    /\ phase' = "idle"
    /\ opts' = DefaultOptions
    /\ loaded' = EmptyTracker
    /\ version_tracker' = EmptyTracker
    /\ w' = [i \in Ids |-> IdleWorker]
    /\ permits' = MAX_CONCURRENT_DOWNLOADS
    /\ mergeIdx' = 1

\* handle_all_extensions after download_extensions returned:
\* version_tracker.merge(updated_tracker); persist_version_tracker(..)
Persist ==
    /\ phase = "returned"
    /\ trackerFile' = [exists |-> TRUE, data |-> merge(loaded, version_tracker)]
    /\ hist' = RunSummary(FALSE)
    /\ EndOfRun
    /\ UNCHANGED srvVars
    /\ UNCHANGED <<catalog, dirs, latestFile, verFiles, versionsJson, runs>>

\* the process is killed during a run: the cache stays as it is, the tracker is
\* not persisted
Kill ==
    /\ phase # "idle"
    /\ hist' = RunSummary(TRUE)
    /\ EndOfRun
    /\ UNCHANGED srvVars
    /\ UNCHANGED <<catalog, dirs, latestFile, verFiles, versionsJson, trackerFile, runs>>

\* between two runs the catalog is refreshed (zedex get extension-index) and
\* upstream has published other versions
CatalogRefresh ==
    /\ phase = "idle"
    /\ \E c \in [Ids -> AcqVersions] :
        /\ c # catalog
        /\ catalog' = c
    /\ hist' = [hist EXCEPT !.catalogSame = FALSE]
    /\ UNCHANGED srvVars
    /\ UNCHANGED <<dirs, latestFile, verFiles, versionsJson, trackerFile, phase,
                   opts, runs, loaded, version_tracker, w, permits, mergeIdx>>

\* the runs of `zedex get all-extensions` without --all-versions
LatestOptions == {o \in Options : ~o.all_versions}

NextLatest ==
    \/ \E o \in LatestOptions : runs < MaxLatestRuns /\ StartRun(o)
    \/ \E id \in Ids : Acquire(id)
    \/ \E id \in Ids : Begin(id)
    \/ \E id \in Ids : DownloadDone(id)
    \/ MergeHandle
    \/ JoinAll
    \/ Persist
    \/ Kill
    \/ runs < MaxLatestRuns /\ CatalogRefresh

SpecLatest == Init /\ [][NextLatest]_vars

\* the version lists upstream answers in the course of time: a version is
\* published, a version is withdrawn
UpstreamVersionLists == {UpstreamVersionList, <<V1_10_0>>, <<V1_2_0>>}

AllVersionsOptions == {o \in Options : o.all_versions}

\* the runs of zedex get all-extensions --all-versions while the version list
\* of upstream changes from one request to the next
NextAllVersions ==
    \/ \E o \in AllVersionsOptions : runs < MaxRuns /\ StartRun(o)
    \/ \E id \in Ids : Acquire(id)
    \/ \E id \in Ids : Begin(id)
    \/ \E id \in Ids, versions \in UpstreamVersionLists : FetchVersionsOf(id, versions)
    \/ \E id \in Ids : LoopStep(id)
    \/ \E id \in Ids : DownloadDone(id)
    \/ \E id \in Ids : Wake(id)
    \/ MergeHandle
    \/ JoinAll
    \/ Persist
    \/ Kill

SpecAllVersions == Init /\ [][NextAllVersions]_vars

Next ==
    \/ \E o \in Options : runs < MaxRuns /\ StartRun(o)
    \/ \E id \in Ids : Acquire(id)
    \/ \E id \in Ids : Begin(id)
    \/ \E id \in Ids : FetchVersions(id)
    \/ \E id \in Ids : LoopStep(id)
    \/ \E id \in Ids : DownloadDone(id)
    \/ \E id \in Ids : Wake(id)
    \/ MergeHandle
    \/ JoinAll
    \/ Persist
    \/ Kill
    \/ runs < MaxRuns /\ CatalogRefresh

Spec == Init /\ [][Next]_vars

(***************************************************************************)
(* Claims about the acquisition orchestrator.                              *)
(***************************************************************************)
\* a task of the run is inside download_extension
Active(id) == w[id].pc \in {"start", "fetching", "loop", "downloading", "sleeping"}

\* C1: when download_extensions has returned in latest-only mode, every
\* extension whose archive was written during the run is mapped by the returned
\* tracker to the catalog version that was written.
C1_WrittenIsTracked ==
    (phase = "returned" /\ ~opts.all_versions) =>
        \A id \in Ids :
            catalog[id] \in Written(id) =>
                /\ id \in DOMAIN version_tracker
                /\ version_tracker[id] = catalog[id]

\* C2: a latest-only run over a catalog unchanged since the previous run, which
\* was persisted and whose downloads all succeeded, issues no download.
C2_NoRedundantDownload ==
    ( /\ phase # "idle"
      /\ ~opts.all_versions
      /\ hist.valid /\ ~hist.killed /\ hist.allOk
      /\ hist.catalogSame /\ hist.latestOnlySoFar )
    => \A id \in Ids : Downloads(id) = {}

\* the run follows a killed run that had written archives, with the same catalog
\* and the same options
AfterKilledRun ==
    /\ phase # "idle"
    /\ hist.valid /\ hist.killed /\ hist.catalogSame
    /\ opts = hist.opts
    /\ hist.written # {}

\* C3 as stated: in either mode, the run after a killed run downloads none of
\* the archives the killed run had written.
C3_NoRedownloadAfterKill ==
    AfterKilledRun => \A f \in hist.written : f[2] \notin Downloads(f[1])

\* C3 amended: in all_versions mode, the run after a killed run downloads none
\* of the archives the killed run had written.
C3_NoRedownloadAfterKillAllVersions ==
    (AfterKilledRun /\ opts.all_versions) =>
        \A f \in hist.written : f[2] \notin Downloads(f[1])

\* C3 witness: after a killed all_versions run, a task has met an archive the
\* killed run wrote and skipped it.
C3_Witness ==
    /\ AfterKilledRun
    /\ opts.all_versions
    /\ \E f \in hist.written : <<"skip", f[2]>> \in Events(f[1])

\* the latest-only test as the claim states it: the file is missing, or the
\* tracker has no entry for the id, or an entry other than the catalog version
C4_MustDownload(id) ==
    \/ latestFile[id] = NoFile
    \/ id \notin DOMAIN w[id].tracker
    \/ w[id].tracker[id] # catalog[id]

\* the step of a latest-only task from its start to its first await
C4_Decides(id) ==
    ~opts.all_versions /\ w[id].pc = "start" /\ w'[id].pc \in {"downloading", "done"}

\* C4 as stated: a latest-only task issues a download if and only if the file
\* is missing or the tracker has no entry or another version.
C4_DownloadIff ==
    [][\A id \in Ids :
        C4_Decides(id) => (w'[id].pc = "downloading" <=> C4_MustDownload(id))]_vars

\* C4 amended: a latest-only task whose directory exists or could be created
\* issues a download if and only if the file is missing or the tracker has no
\* entry or another version; when it issues none, the file and its tracker are
\* unchanged; when the directory cannot be created it issues none.
C4_DownloadIffDirectory ==
    [][\A id \in Ids :
        C4_Decides(id) =>
            /\ id \in dirs' =>
                (w'[id].pc = "downloading" <=> C4_MustDownload(id))
            /\ w'[id].pc = "downloading" <=>
                Downloads(id)' = {catalog[id]}
            /\ w'[id].pc # "downloading" =>
                /\ w'[id].pc = "done"
                /\ Downloads(id)' = {}
                /\ w'[id].tracker = w[id].tracker
                /\ latestFile' = latestFile]_vars

\* C4 witness: one task has skipped its extension, another downloads although
\* its file exists, because its tracker holds another version.
C4_Witness ==
    /\ ~opts.all_versions
    /\ \E i, j \in Ids :
        /\ <<"skip", catalog[i]>> \in Events(i)
        /\ w[j].pc = "downloading"
        /\ latestFile[j] # NoFile

\* C5: in throttled mode at most one task is between acquiring the permit and
\* the end of download_extension.
C5_OneAtATime ==
    (phase = "workers" /\ ~opts.async_mode) =>
        /\ Cardinality({id \in Ids : Active(id)}) <= 1
        /\ \A id \in Ids : Active(id) => w[id].permit

\* C5 witness: a task downloads while another waits for the permit.
C5_Witness ==
    /\ phase = "workers" /\ ~opts.async_mode
    /\ \E i, j \in Ids : w[i].pc = "downloading" /\ w[j].pc = "acquire"

\* an extension of the run has failed
SomeFailure ==
    \E id \in Ids :
        \/ w[id].res = "err"
        \/ Failed(id) # {}
        \/ <<"mkdir_failed", NoFile>> \in Events(id)

\* C6: a failure of one extension keeps no other extension from being
\* attempted, and download_extensions returns the tracker updates of the
\* extensions that succeeded.
C6_FailureIsLocal ==
    (phase = "returned" /\ SomeFailure) =>
        /\ \A id \in Ids : w[id].pc = "done" /\ w[id].log # <<>>
        /\ \A id \in Ids :
            (w[id].res = "ok" /\ Written(id) # {}) =>
                /\ id \in DOMAIN version_tracker
                /\ version_tracker[id] = w[id].tracker[id]

(***************************************************************************)
(* Version strings as the mirror server reads them.                        *)
(***************************************************************************)
\* the versions that occur in the cache of the mirror server
SrvVersions == {V1_2_0, V1_10_0, V1_2}

DigitChars == <<"0", "1", "2", "3", "4", "5", "6", "7", "8", "9">>
IsDigit(c) == \E k \in 1..Len(DigitChars) : DigitChars[k] = c
DigitVal(c) == (CHOOSE k \in 1..Len(DigitChars) : DigitChars[k] = c) - 1

\* str.split('.'): the parts of s between the dots
RECURSIVE SplitDots(_, _)
SplitDots(s, cur) ==
    IF s = <<>> THEN <<cur>>
    ELSE IF Head(s) = "." THEN <<cur>> \o SplitDots(Tail(s), <<>>)
    ELSE SplitDots(Tail(s), Append(cur, Head(s)))

\* the value of a string of digits
RECURSIVE NumVal(_, _)
NumVal(s, acc) ==
    IF s = <<>> THEN acc ELSE NumVal(Tail(s), acc * 10 + DigitVal(Head(s)))

\* a numeric identifier of semver: digits, no leading zero
IsNumeric(part) ==
    /\ part # <<>>
    /\ \A k \in 1..Len(part) : IsDigit(part[k])
    /\ Len(part) > 1 => part[1] # "0"

\* semver::Version::parse for strings without pre-release and build parts
\* (none of the modelled strings has a '-' or a '+'): three numeric parts
SemverParse(s) ==
    LET parts == SplitDots(s, <<>>) IN
    IF Len(parts) = 3 /\ \A k \in 1..3 : IsNumeric(parts[k])
    THEN [ok |-> TRUE, v |-> <<NumVal(parts[1], 0), NumVal(parts[2], 0), NumVal(parts[3], 0)>>]
    ELSE [ok |-> FALSE, v |-> <<0, 0, 0>>]

\* the order of the characters that occur in the modelled strings
CharRank(c) == IF c = "." THEN 0 ELSE 1 + DigitVal(c)

\* str::cmp, lexicographic by character: TRUE iff s > t
RECURSIVE StrGreater(_, _)
StrGreater(s, t) ==
    IF s = <<>> THEN FALSE
    ELSE IF t = <<>> THEN TRUE
    ELSE IF Head(s) # Head(t) THEN CharRank(Head(s)) > CharRank(Head(t))
    ELSE StrGreater(Tail(s), Tail(t))

SemverGreater_Lexicographic(c1, c2) == StrGreater(c1.str, c2.str)

\* v1.cmp(v2) = Ordering::Greater on semver::Version: major, minor, patch
SemverGreater(c1, c2) ==
    \/ c1.v[1] > c2.v[1]
    \/ c1.v[1] = c2.v[1] /\ c1.v[2] > c2.v[2]
    \/ c1.v[1] = c2.v[1] /\ c1.v[2] = c2.v[2] /\ c1.v[3] > c2.v[3]

(***************************************************************************)
(* The cache as the mirror server reads it.                                *)
(***************************************************************************)
\* <extensions_dir>/<id>/<id>.tgz
LatestPath(id) == <<"latest", id, NoFile>>
\* <extensions_dir>/<id>/<id>-<version>.tgz
VersionPath(id, version) == <<"version", id, version>>
\* <extensions_dir>/<id>.tar.gz
LegacyPath(id) == <<"legacy", id, NoFile>>

\* Path::exists
Exists(path) ==
    CASE path[1] = "latest" -> latestFile[path[2]] # NoFile
      [] path[1] = "version" -> <<path[2], path[3]>> \in verFiles
      [] path[1] = "legacy" -> path[2] \in legacyFiles

\* fs::read(path) is Ok
Readable(path) == Exists(path) /\ path \notin unreadable

\* the bytes fs::read returns: they tell the file and, for the latest archive,
\* the version it holds
Bytes(path) ==
    IF path[1] = "latest" THEN <<"latest", path[2], latestFile[path[2]]>> ELSE path

(***************************************************************************)
(* zed/server/handlers/proxy.rs                                            *)
(***************************************************************************)
\* the header names an upstream response carries
UpstreamHeaderSets == {{"content-type"}, {"content-type", "set-cookie"}}

\* what upstream does with a proxied request: no connection, a response whose
\* body cannot be read, or a response with a status and a body
UpstreamOutcomes ==
    {[kind |-> k, status |-> 200, content_type |-> "application/octet-stream",
      headers |-> {}, body |-> NoRequest] : k \in {"transport_err", "body_err"}}
    \cup {[kind |-> "response", status |-> s,
           content_type |-> "application/octet-stream", headers |-> h,
           body |-> <<"upstream", "bytes", NoFile>>] :
               s \in {200, 404}, h \in UpstreamHeaderSets}

\* the response built from what upstream answered: the status, every header
\* of upstream (for (key, value) in headers.iter()) and the body
Forwarded(request, up) ==
    IF up.kind = "response"
    THEN [status |-> up.status, content_type |-> up.content_type, body |-> up.body,
          headers |-> up.headers, upstream |-> request]
    ELSE [status |-> 500, content_type |-> "text/plain", headers |-> {"content-type"},
          body |-> <<"text", "Proxy error", NoFile>>, upstream |-> request]

proxy_download_request_AlwaysOk(id, up) ==
    [Forwarded(<<"download", id, NoFile>>, up) EXCEPT !.status = 200]

\* proxy_download_request
proxy_download_request(id, up) == Forwarded(<<"download", id, NoFile>>, up)

\* proxy_download_version_request
proxy_download_version_request(id, version, up) ==
    Forwarded(<<"version", id, version>>, up)

(***************************************************************************)
(* zed/server/handlers/extensions.rs                                       *)
(***************************************************************************)
\* HttpResponse::Ok().content_type("application/gzip").body(bytes)
Gzip(bytes) ==
    [status |-> 200, content_type |-> "application/gzip", body |-> bytes,
     headers |-> {"content-type"}, upstream |-> NoRequest]

\* HttpResponse::NotFound().body(..)
NotFound ==
    [status |-> 404, content_type |-> "text/plain", headers |-> {"content-type"},
     body |-> <<"text", "not found", NoFile>>, upstream |-> NoRequest]

Candidates_Unparsed(id) ==
    LET Keep(v) == Exists(VersionPath(id, v))
        kept == SelectSeq(versionsJson[id].data, Keep)
    IN  [k \in 1..Len(kept) |-> [v |-> SemverParse(kept[k]).v, str |-> kept[k]]]

\* the filter_map over versions.json: the listed versions whose archive exists
\* and that parse, in the order of the list
Candidates(id) ==
    LET Keep(v) == Exists(VersionPath(id, v)) /\ SemverParse(v).ok
        kept == SelectSeq(versionsJson[id].data, Keep)
    IN  [k \in 1..Len(kept) |-> [v |-> SemverParse(kept[k]).v, str |-> kept[k]]]

\* Iterator::max_by: the last of the greatest elements; <<>> for no element
RECURSIVE MaxBy(_, _)
MaxBy(cands, best) ==
    IF cands = <<>> THEN best
    ELSE MaxBy(Tail(cands),
               IF best # <<>> /\ SemverGreater(best[1], Head(cands))
               THEN best ELSE <<Head(cands)>>)

\* highest_version: read only when the directory and a parsable versions.json exist
HighestVersion(id) ==
    IF id \in dirs /\ versionsJson[id].state = "ok"
    THEN MaxBy(Candidates(id), <<>>)
    ELSE <<>>

download_extension_LegacyFirst(id, up) ==
    IF Readable(LatestPath(id)) THEN Gzip(Bytes(LatestPath(id)))
    ELSE IF Readable(LegacyPath(id)) THEN Gzip(Bytes(LegacyPath(id)))
    ELSE LET hv == HighestVersion(id) IN
         IF hv # <<>> /\ Readable(VersionPath(id, hv[1].str))
         THEN Gzip(Bytes(VersionPath(id, hv[1].str)))
         ELSE IF proxy_mode THEN proxy_download_request(id, up)
         ELSE NotFound

\* download_extension: GET /extensions/{id}/download
download_extension(id, up) ==
    IF Readable(LatestPath(id)) THEN Gzip(Bytes(LatestPath(id)))
    ELSE LET hv == HighestVersion(id) IN
         IF hv # <<>> /\ Readable(VersionPath(id, hv[1].str))
         THEN Gzip(Bytes(VersionPath(id, hv[1].str)))
         ELSE IF Readable(LegacyPath(id)) THEN Gzip(Bytes(LegacyPath(id)))
         ELSE IF proxy_mode THEN proxy_download_request(id, up)
         ELSE NotFound

download_extension_with_version_FallsBack(id, version, up) ==
    IF Readable(VersionPath(id, version)) THEN Gzip(Bytes(VersionPath(id, version)))
    ELSE download_extension(id, up)

\* download_extension_with_version: GET /extensions/{id}/{version}/download
download_extension_with_version(id, version, up) ==
    IF Readable(VersionPath(id, version)) THEN Gzip(Bytes(VersionPath(id, version)))
    ELSE IF proxy_mode THEN proxy_download_version_request(id, version, up)
    ELSE NotFound

\* the request, the response of the handler and, when the handler contacted
\* upstream, what upstream answered
Answered(request, res, up) ==
    [req |-> request, res |-> res,
     answer |-> IF res.upstream # NoRequest THEN up ELSE NoAnswer]

DownloadExtension_Caches(id) ==
    /\ \E up \in UpstreamOutcomes :
        /\ response' = Answered(<<"download", id, NoFile>>, download_extension(id, up), up)
        /\ IF response'.res.upstream # NoRequest /\ response'.res.status = 200
           THEN latestFile' = [latestFile EXCEPT ![id] = V1_2_0] /\ dirs' = dirs \cup {id}
           ELSE UNCHANGED <<latestFile, dirs>>
    /\ UNCHANGED <<catalog, verFiles, versionsJson, trackerFile,
                   phase, opts, runs, loaded, version_tracker, w, permits, mergeIdx,
                   hist, legacyFiles, unreadable, proxy_mode, extensionsJson,
                   config, manifests, releaseFiles, ix, trk, rel, ver>>

\* a request GET /extensions/{id}/download is answered
DownloadExtension(id) ==
    /\ \E up \in UpstreamOutcomes :
        response' = Answered(<<"download", id, NoFile>>, download_extension(id, up), up)
    /\ UNCHANGED <<catalog, dirs, latestFile, verFiles, versionsJson, trackerFile,
                   phase, opts, runs, loaded, version_tracker, w, permits, mergeIdx,
                   hist, legacyFiles, unreadable, proxy_mode, extensionsJson,
                   config, manifests, releaseFiles, ix, trk, rel, ver>>

\* a request GET /extensions/{id}/{version}/download is answered
DownloadExtensionWithVersion(id, version) ==
    /\ \E up \in UpstreamOutcomes :
        response' = Answered(<<"version", id, version>>,
                             download_extension_with_version(id, version, up), up)
    /\ UNCHANGED <<catalog, dirs, latestFile, verFiles, versionsJson, trackerFile,
                   phase, opts, runs, loaded, version_tracker, w, permits, mergeIdx,
                   hist, legacyFiles, unreadable, proxy_mode, extensionsJson,
                   config, manifests, releaseFiles, ix, trk, rel, ver>>

\* the extension whose files the cache of the server holds
SrvId == IdOrder[1]

\* the lists of distinct versions a versions.json may hold
VersionLists ==
    {l \in UNION {[1..n -> SrvVersions] : n \in 0..Cardinality(SrvVersions)} :
        \A i, j \in 1..Len(l) : i # j => l[i] # l[j]}

\* the server is started on a cache directory: any of the coexisting layouts
\* for one extension, no file for the others; no acquisition is running
InitServer ==
    /\ catalog = [i \in Ids |-> V1_2_0]
    /\ latestFile \in {[i \in Ids |-> IF i = SrvId THEN c ELSE NoFile] :
                        c \in {NoFile, V1_2_0}}
    /\ verFiles \in SUBSET {<<SrvId, v>> : v \in SrvVersions}
    /\ versionsJson \in
        {[i \in Ids |-> IF i = SrvId THEN j ELSE AbsentJson] :
            j \in {AbsentJson, MalformedJson}
                  \cup {[state |-> "ok", data |-> l] : l \in VersionLists}}
    /\ legacyFiles \in SUBSET {SrvId}
    /\ dirs \in SUBSET {SrvId}
    /\ (latestFile[SrvId] # NoFile \/ verFiles # {}
        \/ versionsJson[SrvId].state # "absent") => SrvId \in dirs
    /\ unreadable \in SUBSET
        {p \in {LatestPath(SrvId), LegacyPath(SrvId)}
               \cup {VersionPath(SrvId, v) : v \in SrvVersions} : Exists(p)}
    /\ proxy_mode \in BOOLEAN
    /\ response = NoResponse
    /\ trackerFile = [exists |-> FALSE, data |-> EmptyTracker]
    /\ phase = "idle"
    /\ opts = DefaultOptions
    /\ runs = 0
    /\ loaded = EmptyTracker
    /\ version_tracker = EmptyTracker
    /\ w = [i \in Ids |-> IdleWorker]
    /\ permits = MAX_CONCURRENT_DOWNLOADS
    /\ mergeIdx = 1
    /\ hist = NoHist
    /\ IdleServerState

NextServer ==
    \/ \E id \in Ids : DownloadExtension(id)
    \/ \E id \in Ids, version \in SrvVersions : DownloadExtensionWithVersion(id, version)

SpecServer == InitServer /\ [][NextServer]_vars

(***************************************************************************)
(* Claims about the archive resolution of the mirror server.               *)
(***************************************************************************)
\* the versions versions.json lists
Listed(id) ==
    IF versionsJson[id].state = "ok"
    THEN {versionsJson[id].data[k] : k \in 1..Len(versionsJson[id].data)}
    ELSE {}

\* the listed versions whose archive is cached and that are semantic versions
Cached(id) ==
    {v \in Listed(id) : <<id, v>> \in verFiles /\ SemverParse(v).ok}

\* numeric, component-wise: version u is at most version v
NumericLeq(u, v) ==
    LET x == SemverParse(u).v
        y == SemverParse(v).v
    IN  \/ x[1] < y[1]
        \/ x[1] = y[1] /\ x[2] < y[2]
        \/ x[1] = y[1] /\ x[2] = y[2] /\ x[3] <= y[3]

\* the highest cached version
Highest(id) == CHOOSE v \in Cached(id) : \A u \in Cached(id) : NumericLeq(u, v)

Tier1Hit(id) == Readable(LatestPath(id))
Tier2Hit(id) == Cached(id) # {} /\ Readable(VersionPath(id, Highest(id)))
Tier3Hit(id) == Readable(LegacyPath(id))

\* C7: the response to GET /extensions/{id}/download is produced by the first
\* tier that hits, in the order latest, best available, legacy; a hit answers
\* 200 with the gzip content type and the bytes of that file; the request is
\* proxied or answered 404 only when the three tiers miss.
C7_TierOrder ==
    response.req[1] = "download" =>
        LET id == response.req[2]
            res == response.res
        IN  /\ Tier1Hit(id) =>
                /\ res.status = 200 /\ res.content_type = "application/gzip"
                /\ res.body = <<"latest", id, latestFile[id]>>
            /\ (~Tier1Hit(id) /\ Tier2Hit(id)) =>
                /\ res.status = 200 /\ res.content_type = "application/gzip"
                /\ res.body = <<"version", id, Highest(id)>>
            /\ (~Tier1Hit(id) /\ ~Tier2Hit(id) /\ Tier3Hit(id)) =>
                /\ res.status = 200 /\ res.content_type = "application/gzip"
                /\ res.body = <<"legacy", id, NoFile>>
            /\ (res.upstream # NoRequest \/ res.body[1] = "text") =>
                ~Tier1Hit(id) /\ ~Tier2Hit(id) /\ ~Tier3Hit(id)
            /\ (Tier1Hit(id) \/ Tier2Hit(id) \/ Tier3Hit(id)) =>
                res.upstream = NoRequest

\* C7 witness: the latest file misses, a cached version and the legacy file are
\* both there, and the cached version is served.
C7_Witness ==
    /\ response.req[1] = "download"
    /\ ~Tier1Hit(response.req[2])
    /\ Tier2Hit(response.req[2])
    /\ Tier3Hit(response.req[2])
    /\ response.res.body[1] = "version"

\* C8: when the latest file misses, the archive served by best-available
\* resolution is the numerically greatest of the listed, cached, parsable
\* versions.
C8_NumericMaximum ==
    (response.req[1] = "download" /\ ~Tier1Hit(response.req[2])) =>
        LET id == response.req[2]
            body == response.res.body
        IN  /\ body[1] = "version" =>
                /\ body[3] \in Cached(id)
                /\ \A u \in Cached(id) : NumericLeq(u, body[3])
            /\ \A v \in Cached(id) :
                ((\A u \in Cached(id) : NumericLeq(u, v)) /\ Readable(VersionPath(id, v)))
                    => body = <<"version", id, v>>

\* C8 witness: 1.2.0 and 1.10.0 are listed and cached, 1.10.0 is served.
C8_Witness ==
    /\ response.req[1] = "download"
    /\ {V1_2_0, V1_10_0} \subseteq Cached(response.req[2])
    /\ response.res.body = <<"version", response.req[2], V1_10_0>>

\* C9: for GET /extensions/{id}/{version}/download only the exact archive is
\* tried: it is served when it can be read, else the request is proxied when
\* proxy_mode is on and answered 404 when it is off; no other file is served.
C9_ExactVersionOnly ==
    response.req[1] = "version" =>
        LET id == response.req[2]
            v == response.req[3]
            res == response.res
        IN  /\ res.body[1] \notin {"latest", "legacy"}
            /\ res.body[1] = "version" => res.body = <<"version", id, v>>
            /\ IF Readable(VersionPath(id, v))
               THEN /\ res.status = 200 /\ res.content_type = "application/gzip"
                    /\ res.body = <<"version", id, v>>
                    /\ res.upstream = NoRequest
               ELSE IF proxy_mode
               THEN res.upstream = <<"version", id, v>>
               ELSE res.status = 404 /\ res.upstream = NoRequest

\* C9 witness: the exact archive is missing while the latest file, another
\* version and the legacy file are cached, and the answer is 404.
C9_Witness ==
    /\ response.req[1] = "version"
    /\ <<response.req[2], response.req[3]>> \notin verFiles
    /\ Tier1Hit(response.req[2])
    /\ Tier2Hit(response.req[2])
    /\ Tier3Hit(response.req[2])
    /\ response.res.status = 404
    /\ response.res.upstream = NoRequest

\* no archive of the extension in any layout
NoFileAnywhere(id) ==
    /\ latestFile[id] = NoFile
    /\ \A v \in SrvVersions : <<id, v>> \notin verFiles
    /\ id \notin legacyFiles

\* C10: GET /extensions/{id}/download for an id without any file answers 404
\* when proxy_mode is off; when it is on, upstream is asked and the status and
\* the body upstream returned are the status and the body of the response.
C10_MissAnswer ==
    (response.req[1] = "download" /\ NoFileAnywhere(response.req[2])) =>
        IF proxy_mode
        THEN /\ response.res.upstream = <<"download", response.req[2], NoFile>>
             /\ response.answer.kind = "response" =>
                    /\ response.res.status = response.answer.status
                    /\ response.res.body = response.answer.body
        ELSE /\ response.res.status = 404
             /\ response.res.upstream = NoRequest

\* C10 witness: upstream answered 404 to the proxied request and the response
\* is that 404.
C10_Witness ==
    /\ response.req[1] = "download"
    /\ NoFileAnywhere(response.req[2])
    /\ proxy_mode
    /\ response.answer.kind = "response"
    /\ response.answer.status = 404
    /\ response.res.status = 404

(***************************************************************************)
(* The catalog entries of the mirror server (zed/extension.rs).            *)
(***************************************************************************)
\* Option::None of Extension.wasm_api_version
NoWasm == <<>>

V0_9_0 == <<"0", ".", "9", ".", "0">>
V0_10_0 == <<"0", ".", "1", "0", ".", "0">>

\* the entries that occur in an extensions.json of the server
ExtAb ==
    [id |-> <<"a", "b">>, name |-> <<"A", "b">>, description |-> <<"x">>,
     version |-> V1_2_0, schema_version |-> 1, wasm_api_version |-> V0_9_0,
     provides |-> {"themes"}, download_count |-> 5]
ExtB ==
    [id |-> <<"b">>, name |-> <<"B">>, description |-> <<"a", "B">>,
     version |-> V1_10_0, schema_version |-> 2, wasm_api_version |-> V0_10_0,
     provides |-> {"languages", "themes"}, download_count |-> 5]
ExtC ==
    [id |-> <<"c">>, name |-> <<"C">>, description |-> <<>>,
     version |-> V1_2_0, schema_version |-> 0, wasm_api_version |-> NoWasm,
     provides |-> {}, download_count |-> 9]
ExtensionPool == {ExtAb, ExtB, ExtC}

\* the sequences of at most n distinct entries of a set
DistinctSeqs(S, n) ==
    {l \in UNION {[1..k -> S] : k \in 0..n} :
        \A i, j \in 1..Len(l) : i # j => l[i] # l[j]}

\* the catalogs an extensions.json may hold
Catalogs == DistinctSeqs(ExtensionPool, MaxCatalogLen)

\* str::to_lowercase over the letters of the modelled strings
LowerChar(c) ==
    CASE c = "A" -> "a"
      [] c = "B" -> "b"
      [] c = "C" -> "c"
      [] OTHER -> c
to_lowercase(s) == [k \in 1..Len(s) |-> LowerChar(s[k])]

\* str::contains: t occurs in s as a substring
contains(s, t) ==
    \E k \in 0..(Len(s) - Len(t)) : SubSeq(s, k + 1, k + Len(t)) = t

\* str::split(sep): the parts of s between the separators
RECURSIVE Split(_, _, _)
Split(s, sep, cur) ==
    IF s = <<>> THEN <<cur>>
    ELSE IF Head(s) = sep THEN <<cur>> \o Split(Tail(s), sep, <<>>)
    ELSE Split(Tail(s), sep, Append(cur, Head(s)))

\* a query parameter that is absent
NoParam == [present |-> FALSE, ok |-> FALSE, n |-> 0, s |-> <<>>]
\* a query parameter whose value parses as i32
IntParam(k) == [present |-> TRUE, ok |-> TRUE, n |-> k, s |-> <<>>]
\* a query parameter whose value does not parse as i32
BadIntParam == [present |-> TRUE, ok |-> FALSE, n |-> 0, s |-> <<"x">>]
\* a query parameter read as a string
StrParam(str) == [present |-> TRUE, ok |-> FALSE, n |-> 0, s |-> str]
\* a query parameter whose value is a name (a capability, an os, an asset),
\* absent and present
NoName == [present |-> FALSE, ok |-> FALSE, n |-> 0, s |-> ""]
NameParam(str) == [present |-> TRUE, ok |-> FALSE, n |-> 0, s |-> str]

\* query.get(..).and_then(|v| v.parse::<i32>().ok()): Some iff present and parsed
ParsedInt(param) == param.present /\ param.ok

\* Extension::provides_capability
provides_capability(ext, capability) == capability \in ext.provides

filter_extensions_CaseSensitive(extensions, filter, max_schema_version, provides) ==
    LET Keep(ext) ==
            /\ ParsedInt(max_schema_version) =>
                   ~(ext.schema_version > max_schema_version.n)
            /\ filter.present =>
                   ~(/\ filter.s # <<>>
                     /\ ~contains(ext.name, filter.s)
                     /\ ~contains(ext.id, filter.s)
                     /\ ~contains(ext.description, filter.s))
            /\ provides.present =>
                   ~(provides.s # "" /\ ~provides_capability(ext, provides.s))
    IN  SelectSeq(extensions, Keep)

\* extensions_utils::filter_extensions: the entries that pass, in order
\* (provides is a capability name, or "" for the empty string)
filter_extensions(extensions, filter, max_schema_version, provides) ==
    LET Keep(ext) ==
            /\ ParsedInt(max_schema_version) =>
                   ~(ext.schema_version > max_schema_version.n)
            /\ filter.present =>
                   ~(/\ filter.s # <<>>
                     /\ ~contains(to_lowercase(ext.name), to_lowercase(filter.s))
                     /\ ~contains(to_lowercase(ext.id), to_lowercase(filter.s))
                     /\ ~contains(to_lowercase(ext.description),
                                  to_lowercase(filter.s)))
            /\ provides.present =>
                   ~(provides.s # "" /\ ~provides_capability(ext, provides.s))
    IN  SelectSeq(extensions, Keep)

(***************************************************************************)
(* zed/server/handlers/extensions.rs: catalog listing, update check and    *)
(* version list.                                                           *)
(***************************************************************************)
\* Option<&[&str]>::None
NoIds == [some |-> FALSE, ids |-> <<>>]

filter_extensions_with_params_AnyId(extensions, filter, min_schema_version, max_schema_version, min_wasm_api_version, max_wasm_api_version, provides, extension_ids) ==
    LET filtered_by_standard ==
            filter_extensions(extensions, filter, max_schema_version, provides)
        MinSchema(ext) == ext.schema_version >= min_schema_version.n
        filtered_by_min_schema ==
            IF ParsedInt(min_schema_version)
            THEN SelectSeq(filtered_by_standard, MinSchema)
            ELSE filtered_by_standard
        filtered_by_ids ==
            filtered_by_min_schema
        Wasm(ext) ==
            IF ext.wasm_api_version = NoWasm THEN TRUE
            ELSE IF min_wasm_api_version.present
                    /\ StrGreater(min_wasm_api_version.s, ext.wasm_api_version)
            THEN FALSE
            ELSE IF max_wasm_api_version.present
                    /\ StrGreater(ext.wasm_api_version, max_wasm_api_version.s)
            THEN FALSE
            ELSE TRUE
    IN  IF min_wasm_api_version.present \/ max_wasm_api_version.present
        THEN SelectSeq(filtered_by_ids, Wasm)
        ELSE filtered_by_ids

\* filter_extensions_with_params
filter_extensions_with_params(extensions, filter, min_schema_version, max_schema_version, min_wasm_api_version, max_wasm_api_version, provides, extension_ids) ==
    LET filtered_by_standard ==
            filter_extensions(extensions, filter, max_schema_version, provides)
        MinSchema(ext) == ext.schema_version >= min_schema_version.n
        filtered_by_min_schema ==
            IF ParsedInt(min_schema_version)
            THEN SelectSeq(filtered_by_standard, MinSchema)
            ELSE filtered_by_standard
        InIds(ext) ==
            \E k \in 1..Len(extension_ids.ids) : extension_ids.ids[k] = ext.id
        filtered_by_ids ==
            IF extension_ids.some /\ extension_ids.ids # <<>>
            THEN SelectSeq(filtered_by_min_schema, InIds)
            ELSE filtered_by_min_schema
        Wasm(ext) ==
            IF ext.wasm_api_version = NoWasm THEN TRUE
            ELSE IF min_wasm_api_version.present
                    /\ StrGreater(min_wasm_api_version.s, ext.wasm_api_version)
            THEN FALSE
            ELSE IF max_wasm_api_version.present
                    /\ StrGreater(ext.wasm_api_version, max_wasm_api_version.s)
            THEN FALSE
            ELSE TRUE
    IN  IF min_wasm_api_version.present \/ max_wasm_api_version.present
        THEN SelectSeq(filtered_by_ids, Wasm)
        ELSE filtered_by_ids

\* HttpResponse::Ok().json(..)
Json(what, payload) ==
    [status |-> 200, content_type |-> "application/json",
     body |-> <<"json", what, payload>>, upstream |-> NoRequest]

\* HttpResponse::InternalServerError().body(..)
InternalServerError(msg) ==
    [status |-> 500, content_type |-> "text/plain",
     body |-> <<"text", msg, NoFile>>, upstream |-> NoRequest]

\* HttpResponse::NotFound().body(..) with the message of the handler
NotFoundBody(msg) ==
    [status |-> 404, content_type |-> "text/plain",
     body |-> <<"text", msg, NoFile>>, upstream |-> NoRequest]

\* the proxies that check the status of upstream (error_for_status): a 2xx
\* body is passed on as JSON, another status is passed on with a message of
\* the server as body
ForwardedChecked(request, up) ==
    IF up.kind = "transport_err"
    THEN [InternalServerError("Error proxying request") EXCEPT !.upstream = request]
    ELSE IF up.status >= 400
    THEN [status |-> up.status, content_type |-> "text/plain",
          body |-> <<"text", "Error from zed.dev", NoFile>>, upstream |-> request]
    ELSE IF up.kind = "body_err"
    THEN [InternalServerError("Error reading proxied response")
            EXCEPT !.upstream = request]
    ELSE [status |-> 200, content_type |-> "application/json", body |-> up.body,
          upstream |-> request]

\* proxy_extensions_updates
proxy_extensions_updates(up) == ForwardedChecked(<<"updates", "", NoFile>>, up)

\* proxy_extension_versions
proxy_extension_versions(id, up) == Forwarded(<<"versions", id, NoFile>>, up)

\* get_extensions_index: GET /extensions
get_extensions_index(query) ==
    IF extensionsJson.state = "absent"
    THEN NotFoundBody("Extensions file not found")
    ELSE IF extensionsJson.state = "malformed"
    THEN InternalServerError("Error parsing extensions file")
    ELSE Json("extensions",
              filter_extensions_with_params(
                  extensionsJson.data, query.filter, NoParam,
                  query.max_schema_version, NoParam, NoParam, query.provides,
                  NoIds))

check_extension_updates_NoShortCircuit(query, up) ==
    LET ids_param == IF query.ids.present THEN query.ids.s ELSE <<>>
        extension_ids == IF ids_param # <<>> THEN Split(ids_param, ",", <<>>) ELSE <<>>
    IN  IF extensionsJson.state = "absent"
        THEN IF proxy_mode THEN proxy_extensions_updates(up)
             ELSE NotFoundBody("Extensions file not found")
        ELSE IF extensionsJson.state = "malformed"
        THEN InternalServerError("Error parsing extensions file")
        ELSE Json("extensions",
                  filter_extensions_with_params(
                      extensionsJson.data, NoParam, query.min_schema_version,
                      query.max_schema_version, query.min_wasm_api_version,
                      query.max_wasm_api_version, NoParam,
                      IF extension_ids = <<>> THEN NoIds
                      ELSE [some |-> TRUE, ids |-> extension_ids]))

\* check_extension_updates: GET /extensions/updates
check_extension_updates(query, up) ==
    LET ids_param == IF query.ids.present THEN query.ids.s ELSE <<>>
        extension_ids == IF ids_param # <<>> THEN Split(ids_param, ",", <<>>) ELSE <<>>
    IN  IF ids_param = <<>> THEN Json("extensions", <<>>)
        ELSE IF extensionsJson.state = "absent"
        THEN IF proxy_mode THEN proxy_extensions_updates(up)
             ELSE NotFoundBody("Extensions file not found")
        ELSE IF extensionsJson.state = "malformed"
        THEN InternalServerError("Error parsing extensions file")
        ELSE Json("extensions",
                  filter_extensions_with_params(
                      extensionsJson.data, NoParam, query.min_schema_version,
                      query.max_schema_version, query.min_wasm_api_version,
                      query.max_wasm_api_version, NoParam,
                      IF extension_ids = <<>> THEN NoIds
                      ELSE [some |-> TRUE, ids |-> extension_ids]))

\* get_extension_versions: GET /extensions/{id}
get_extension_versions(id, up) ==
    IF versionsJson[id].state = "absent"
    THEN IF proxy_mode THEN proxy_extension_versions(id, up)
         ELSE NotFoundBody("Extension versions not found")
    ELSE IF versionsJson[id].state = "unreadable"
    THEN InternalServerError("Error reading versions file")
    ELSE IF versionsJson[id].state = "malformed"
    THEN InternalServerError("Error parsing versions file")
    ELSE Json("versions", versionsJson[id].data)

\* the state a request leaves alone: everything but the response
cacheVars == <<acqVars, legacyFiles, unreadable, proxy_mode, extensionsJson,
               config, manifests, releaseFiles, ix, trk, rel, ver>>

\* a request GET /extensions?.. is answered
GetExtensionsIndex(query) ==
    /\ response' = Answered(<<"index", query, NoFile>>, get_extensions_index(query),
                            NoAnswer)
    /\ UNCHANGED cacheVars

\* a request GET /extensions/updates?.. is answered
CheckExtensionUpdates(query) ==
    /\ \E up \in UpstreamOutcomes :
        response' = Answered(<<"updates", query, NoFile>>,
                             check_extension_updates(query, up), up)
    /\ UNCHANGED cacheVars

\* a request GET /extensions/{id} is answered
GetExtensionVersions(id) ==
    /\ \E up \in UpstreamOutcomes :
        response' = Answered(<<"versions", id, NoFile>>,
                             get_extension_versions(id, up), up)
    /\ UNCHANGED cacheVars

(***************************************************************************)
(* zed/server/handlers/releases.rs                                         *)
(***************************************************************************)
\* the release manifest of upstream: Version {version, url}
UpstreamOrigin == "https://zed.dev"
ManifestZed ==
    [version |-> SegVersion,
     url |-> <<UpstreamOrigin, "/api/releases/stable/0.1.0/zed.tar.gz">>]
\* a manifest whose archive is on another origin
ManifestCdn ==
    [version |-> SegVersion, url |-> <<"https://cdn.example", "/zed.tar.gz">>]

\* str::replace(from, to) on a URL held as its origin and its path
replace(url, from, to) == [k \in 1..Len(url) |-> IF url[k] = from THEN to ELSE url[k]]

\* the file <releases_dir>/<asset>-<os>-<arch>.json
PlatformVersionFile(asset, os, arch) ==
    IF <<asset, os, arch>> \in Platforms THEN manifests[<<asset, os, arch>>]
    ELSE AbsentJson

\* Path::exists and fs::read below releases_dir
ReleaseExists(path) == path \in DOMAIN releaseFiles /\ releaseFiles[path] # "absent"
ReleaseReadable(path) == path \in DOMAIN releaseFiles /\ releaseFiles[path] = "ok"

\* Path::extension: the part after the last dot of the file name
PathExtension(path) ==
    LET name == path[Len(path)] IN
    IF Len(name) > 1 THEN name[Len(name)] ELSE ""

read_version_file_NoDomain(file, domain) ==
    IF file.state = "unreadable"
    THEN InternalServerError("Error reading version file")
    ELSE IF file.state = "malformed"
    THEN InternalServerError("Error parsing version file")
    ELSE Json("version", file.data)

\* read_version_file
read_version_file(file, domain) ==
    IF file.state = "unreadable"
    THEN InternalServerError("Error reading version file")
    ELSE IF file.state = "malformed"
    THEN InternalServerError("Error parsing version file")
    ELSE Json("version",
              IF domain.some
              THEN [file.data EXCEPT !.url = replace(@, UpstreamOrigin, domain.s)]
              ELSE file.data)

\* proxy_version_request
proxy_version_request(os, arch, asset, up) ==
    ForwardedChecked(<<"latest", asset, <<os, arch>>>>, up)

\* the value of a query parameter, or the default of the handler
OrDefault(param, default) == IF param.present THEN param.s ELSE default

\* get_latest_version: GET /api/releases/latest, /api/releases/{channel}/latest
get_latest_version(query, up) ==
    LET os == OrDefault(query.os, "macos")
        arch == OrDefault(query.arch, "x86_64")
        asset == OrDefault(query.asset, "zed")
        platform_version_file == PlatformVersionFile(asset, os, arch)
    IN  IF config.releases_dir
        THEN IF platform_version_file.state # "absent"
             THEN read_version_file(platform_version_file, config.domain)
             ELSE IF proxy_mode THEN proxy_version_request(os, arch, asset, up)
             ELSE NotFoundBody("Version file not found")
        ELSE NotFoundBody("Releases directory not configured")

\* serve_release_file: the content type follows the extension of the file
serve_release_file(path) ==
    IF ReleaseReadable(path)
    THEN [status |-> 200,
          content_type |->
              CASE PathExtension(path) = "dmg" -> "application/x-apple-diskimage"
                [] PathExtension(path) = "zip" -> "application/zip"
                [] PathExtension(path) = "json" -> "application/json"
                [] PathExtension(path) = "gz" -> "application/gzip"
                [] PathExtension(path) = "tar" -> "application/x-tar"
                [] OTHER -> "application/octet-stream",
          body |-> <<"release", "file", path>>, upstream |-> NoRequest]
    ELSE InternalServerError("Error reading release file")

serve_release_api_Proxies(channel, version, asset, up) ==
    IF config.releases_dir /\ ReleaseExists(<<version, asset>>)
    THEN serve_release_file(<<version, asset>>)
    ELSE IF proxy_mode
    THEN Forwarded(<<"release", "asset", <<channel, version, asset>>>>, up)
    ELSE NotFoundBody("Release file not found")

\* serve_release_api: GET /api/releases/{channel}/{version}/{filename}
serve_release_api(channel, version, asset, up) ==
    IF config.releases_dir /\ ReleaseExists(<<version, asset>>)
    THEN serve_release_file(<<version, asset>>)
    ELSE NotFoundBody("Release file not found")

(***************************************************************************)
(* zed/server/handlers/proxy.rs: the catch-all /api/{path:.*}              *)
(***************************************************************************)
\* str::starts_with(prefix) for a prefix that ends with '/': the segments of
\* the prefix, followed by at least one more segment
StartsWith(path, prefix) ==
    Len(path) > Len(prefix) /\ SubSeq(path, 1, Len(prefix)) = prefix

\* str::trim_start_matches("<seg>/"): drop every leading repetition
RECURSIVE TrimStart(_, _)
TrimStart(path, seg) ==
    IF Len(path) > 1 /\ Head(path) = seg THEN TrimStart(Tail(path), seg) ELSE path

\* filename.replace(".tar.gz", ""): drop every ".tar.gz" of the name
RECURSIVE StripTarGz(_, _)
StripTarGz(name, first) ==
    IF name = <<>> THEN <<>>
    ELSE IF ~first /\ Len(name) >= 2 /\ name[1] = "tar" /\ name[2] = "gz"
    THEN StripTarGz(SubSeq(name, 3, Len(name)), FALSE)
    ELSE <<Head(name)>> \o StripTarGz(Tail(name), FALSE)

\* format!("<asset>-{}-{}.gz", version, filename.replace(".tar.gz", ""))
\* below <releases_dir>/<asset>/
AssetPath(asset, version, filename) ==
    <<<<asset>>,
      <<asset, "-">> \o version \o <<"-">> \o StripTarGz(filename, TRUE) \o <<"gz">>>>

\* what the catch-all passes on from upstream: the status, the content type
\* and the body, an empty body when the body cannot be read
ForwardedApi(request, up) ==
    IF up.kind = "transport_err"
    THEN [InternalServerError("Error proxying request") EXCEPT !.upstream = request]
    ELSE [status |-> up.status, content_type |-> up.content_type,
          body |-> IF up.kind = "body_err" THEN <<"empty", "", NoFile>> ELSE up.body,
          upstream |-> request]

proxy_api_request_NoModeCheck(path, up) == ForwardedApi(<<"api", "", path>>, up)

\* proxy_api_request: path is what follows /api/
proxy_api_request(path, up) ==
    LET clean_path == TrimStart(path, <<"api">>)
        stable ==
            \/ StartsWith(path, <<<<"api">>, <<"releases">>, <<"stable">>>>)
            \/ StartsWith(path, <<<<"releases">>, <<"stable">>>>)
        local == stable /\ Len(clean_path) >= 4 /\ config.releases_dir
        zed_path == AssetPath("zed", clean_path[3], clean_path[4])
        remote_server_path ==
            AssetPath("zed-remote-server", clean_path[3], clean_path[4])
        file_path == TrimStart(path, <<"releases">>)
    IN  IF ~proxy_mode THEN NotFoundBody("API path not found locally")
        ELSE IF local /\ ReleaseExists(zed_path) THEN serve_release_file(zed_path)
        ELSE IF local /\ ReleaseExists(remote_server_path)
        THEN serve_release_file(remote_server_path)
        ELSE IF /\ config.releases_dir
                /\ StartsWith(path, <<<<"releases">>>>)
                /\ path # <<<<"releases">>, <<"latest">>>>
                /\ ReleaseExists(file_path)
        THEN serve_release_file(file_path)
        ELSE ForwardedApi(<<"api", "", path>>, up)

(***************************************************************************)
(* zed/health.rs                                                           *)
(***************************************************************************)
\* get_extensions_loaded_count: the number of entries of the cache directory
get_extensions_loaded_count ==
    Cardinality(dirs) + Cardinality(legacyFiles)
    + (IF extensionsJson.state # "absent" THEN 1 ELSE 0)
    + (IF trackerFile.exists THEN 1 ELSE 0)
    + (IF config.releases_dir THEN 1 ELSE 0)

\* health_check: GET /health
health_check ==
    IF get_extensions_loaded_count = 0
    THEN [status |-> 500, content_type |-> "application/json",
          body |-> <<"json", "health", <<"ERROR">>>>, upstream |-> NoRequest]
    ELSE Json("health", <<"OK">>)

(***************************************************************************)
(* zed/server/mod.rs: the routes of LocalServer::run, in the order of      *)
(* their registration; the first resource that matches takes the request.  *)
(***************************************************************************)
Route(path) ==
    LET n == Len(path)
        Is(k, s) == path[k] = <<s>>
    IN  IF n = 1 /\ Is(1, "health") THEN "health_check"
        ELSE IF n = 1 /\ Is(1, "extensions") THEN "get_extensions_index"
        ELSE IF n = 2 /\ Is(1, "extensions") /\ Is(2, "updates")
        THEN "check_extension_updates"
        ELSE IF n = 3 /\ Is(1, "extensions") /\ Is(3, "download")
        THEN "download_extension"
        ELSE IF n = 4 /\ Is(1, "extensions") /\ Is(4, "download")
        THEN "download_extension_with_version"
        ELSE IF n = 2 /\ Is(1, "extensions") THEN "get_extension_versions"
        ELSE IF n = 3 /\ Is(1, "api") /\ Is(2, "releases") /\ Is(3, "latest")
        THEN "get_latest_version"
        ELSE IF n = 4 /\ Is(1, "api") /\ Is(2, "releases") /\ Is(4, "latest")
        THEN "get_latest_version"
        ELSE IF n = 5 /\ Is(1, "api") /\ Is(2, "releases") THEN "serve_release_api"
        ELSE IF n >= 1 /\ Is(1, "releases") /\ config.releases_dir THEN "files_releases"
        ELSE IF n >= 2 /\ Is(1, "api") THEN "proxy_api_request"
        ELSE IF n >= 1 /\ Is(1, "extensions-archive") THEN "files_extensions_archive"
        ELSE "default_404"

(***************************************************************************)
(* The requests of the mirror server.                                      *)
(***************************************************************************)
\* a request GET /api/releases/latest?.. is answered
GetLatestVersion(query) ==
    /\ \E up \in UpstreamOutcomes :
        response' = Answered(<<"latest", query, NoFile>>,
                             get_latest_version(query, up), up)
    /\ UNCHANGED cacheVars

\* a request GET /api/releases/{channel}/{version}/{filename} is answered
ServeReleaseApi(channel, version, filename) ==
    /\ Route(<<<<"api">>, <<"releases">>, channel, version, filename>>)
            = "serve_release_api"
    /\ \E up \in UpstreamOutcomes :
        response' = Answered(<<"release_asset", "", <<channel, version, filename>>>>,
                             serve_release_api(channel, version, filename, up), up)
    /\ UNCHANGED cacheVars

\* a request GET /api/<path> that no other resource takes is answered
ProxyApiRequest(path) ==
    /\ Route(<<<<"api">>>> \o path) = "proxy_api_request"
    /\ \E up \in UpstreamOutcomes :
        response' = Answered(<<"proxy_api", "", path>>, proxy_api_request(path, up), up)
    /\ UNCHANGED cacheVars

\* a request GET /health is answered
HealthCheck ==
    /\ response' = Answered(<<"health", "", NoFile>>, health_check, NoAnswer)
    /\ UNCHANGED cacheVars

\* the queries of GET /extensions
IndexQueries ==
    [filter : {NoParam, StrParam(<<>>), StrParam(<<"a">>), StrParam(<<"A", "B">>),
               StrParam(<<"z">>)},
     max_schema_version : {NoParam, BadIntParam, IntParam(0), IntParam(1)},
     provides : {NoName, NameParam(""), NameParam("themes")}]

\* the queries of GET /extensions/updates
UpdateQueries ==
    [ids : {NoParam, StrParam(<<>>), StrParam(<<"a", "b">>),
            StrParam(<<"a", "b", ",", "c">>), StrParam(<<"z">>)},
     min_schema_version : {NoParam, IntParam(1)},
     max_schema_version : {NoParam, IntParam(1)},
     min_wasm_api_version : {NoParam, StrParam(V0_9_0), StrParam(V0_10_0)},
     max_wasm_api_version : {NoParam, StrParam(V0_9_0), StrParam(V0_10_0)}]

\* the queries of GET /api/releases/latest
LatestQueries ==
    [os : {NoName, NameParam("linux"), NameParam("windows")},
     arch : {NoName},
     asset : {NoName, NameParam("zed")}]

\* the paths requested below /api/
ApiPaths ==
    {<<<<"extensions">>>>,
     <<<<"releases">>, <<"stable">>, SegVersion, SegFile>>,
     <<<<"releases">>, <<"stable">>, SegVersion, SegFile, <<"x">>>>,
     <<<<"api">>, <<"releases">>, <<"stable">>, SegVersion, SegFile>>}

\* one query of each kind for the runs over all the endpoints
PlainIndexQueries ==
    {q \in IndexQueries : ~q.max_schema_version.present /\ ~q.provides.present
                          /\ q.filter \in {NoParam, StrParam(<<"a">>)}}
PlainUpdateQueries ==
    {q \in UpdateQueries :
        /\ q.ids \in {NoParam, StrParam(<<"a", "b">>)}
        /\ ~q.min_schema_version.present /\ ~q.max_schema_version.present
        /\ ~q.min_wasm_api_version.present /\ ~q.max_wasm_api_version.present}

\* no acquisition and no catalog refresh runs while the server is observed
AcquisitionIdle ==
    /\ catalog = [i \in Ids |-> V1_2_0]
    /\ trackerFile = [exists |-> FALSE, data |-> EmptyTracker]
    /\ phase = "idle"
    /\ opts = DefaultOptions
    /\ runs = 0
    /\ loaded = EmptyTracker
    /\ version_tracker = EmptyTracker
    /\ w = [i \in Ids |-> IdleWorker]
    /\ permits = MAX_CONCURRENT_DOWNLOADS
    /\ mergeIdx = 1
    /\ hist = NoHist
    /\ ix = IdleIndex
    /\ rel = IdleRelease
    /\ trk = NoTrackers

\* no archive of an extension is cached
NoExtensionCache ==
    /\ dirs = {}
    /\ latestFile = [i \in Ids |-> NoFile]
    /\ verFiles = {}
    /\ versionsJson = [i \in Ids |-> AbsentJson]
    /\ legacyFiles = {}
    /\ unreadable = {}

\* the release cache is empty
NoReleaseCache ==
    /\ manifests = [p \in Platforms |-> AbsentJson]
    /\ releaseFiles = [p \in ReleasePaths |-> "absent"]

\* the domains --domain may configure
Domains == {NoDomain, [some |-> TRUE, s |-> "https://mirror.example"]}

\* the contents extensions.json may have when the server reads it
IndexFiles ==
    {AbsentJson, MalformedJson} \cup {[state |-> "ok", data |-> c] : c \in Catalogs}

\* the server of the catalog endpoints on any extensions.json
InitCatalogApi ==
    /\ AcquisitionIdle
    /\ ver = IdleVersions
    /\ NoExtensionCache
    /\ NoReleaseCache
    /\ config = DefaultConfig
    /\ extensionsJson \in IndexFiles
    /\ proxy_mode \in BOOLEAN
    /\ response = NoResponse

NextCatalogApi ==
    \/ \E q \in IndexQueries : GetExtensionsIndex(q)
    \/ \E q \in UpdateQueries : CheckExtensionUpdates(q)

SpecCatalogApi == InitCatalogApi /\ [][NextCatalogApi]_vars

\* a versions.json that exists and cannot be read
UnreadableJson == [state |-> "unreadable", data |-> <<>>]

\* the contents a release manifest file may have
ManifestFiles ==
    {AbsentJson, UnreadableJson, MalformedJson}
    \cup {[state |-> "ok", data |-> m] : m \in {ManifestZed, ManifestCdn}}

\* The server with all its endpoints is started on a cache directory.  Every
\* handler reads the files of its own part of the cache only, so the parts
\* vary one at a time: the catalog, the release manifests, the release files,
\* the archives of one extension.
InitApi ==
    /\ AcquisitionIdle
    /\ ver = IdleVersions
    /\ proxy_mode \in BOOLEAN
    /\ response = NoResponse
    /\ \/ /\ extensionsJson \in IndexFiles
          /\ NoExtensionCache /\ NoReleaseCache /\ config = DefaultConfig
       \/ /\ manifests \in [Platforms -> ManifestFiles]
          /\ config \in [releases_dir : {TRUE}, domain : Domains]
          /\ releaseFiles = [p \in ReleasePaths |-> "absent"]
          /\ NoExtensionCache /\ extensionsJson = AbsentJson
       \/ /\ releaseFiles \in [ReleasePaths -> {"absent", "ok", "unreadable"}]
          /\ manifests = [p \in Platforms |-> AbsentJson]
          /\ NoExtensionCache /\ extensionsJson = AbsentJson /\ config = DefaultConfig
       \/ /\ latestFile \in {[i \in Ids |-> IF i = SrvId THEN c ELSE NoFile] :
                              c \in {NoFile, V1_2_0}}
          /\ verFiles \in SUBSET {<<SrvId, V1_2_0>>}
          /\ versionsJson \in
                {[i \in Ids |-> IF i = SrvId THEN j ELSE AbsentJson] :
                    j \in {AbsentJson, MalformedJson, UnreadableJson,
                           [state |-> "ok", data |-> <<V1_2_0>>]}}
          /\ legacyFiles \in SUBSET {SrvId}
          /\ dirs \in SUBSET {SrvId}
          /\ (latestFile[SrvId] # NoFile \/ verFiles # {}
              \/ versionsJson[SrvId].state # "absent") => SrvId \in dirs
          /\ unreadable = {}
          /\ NoReleaseCache /\ extensionsJson = AbsentJson /\ config = DefaultConfig

\* the release assets that are requested
AssetVersions == {SegVersion, <<"9", "9", "9">>}

NextApi ==
    \/ \E q \in PlainIndexQueries : GetExtensionsIndex(q)
    \/ \E q \in PlainUpdateQueries : CheckExtensionUpdates(q)
    \/ \E id \in Ids : GetExtensionVersions(id)
    \/ \E id \in Ids : DownloadExtension(id)
    \/ \E id \in Ids, version \in {V1_2_0, V1_10_0} :
            DownloadExtensionWithVersion(id, version)
    \/ \E q \in LatestQueries : GetLatestVersion(q)
    \/ \E version \in AssetVersions : ServeReleaseApi(<<"stable">>, version, SegFile)
    \/ \E path \in ApiPaths : ProxyApiRequest(path)
    \/ HealthCheck

SpecApi == InitApi /\ [][NextApi]_vars

(***************************************************************************)
(* Claims about the endpoints of the mirror server.                        *)
(***************************************************************************)
\* C11: with proxy_mode off no request makes the server call upstream.
C11_LocalModeNeverCallsUpstream ==
    ~proxy_mode =>
        /\ response.res.upstream = NoRequest
        /\ response.answer = NoAnswer

\* C11 witness: with proxy_mode off the catch-all has answered 404 to a path
\* it would pass on to upstream.
C11_Witness ==
    /\ ~proxy_mode
    /\ response.req[1] = "proxy_api"
    /\ response.req[3] = <<<<"extensions">>>>
    /\ response.res.status = 404

\* the handlers that have to fall through to upstream in proxy mode
FallThroughHandlers == {"index", "updates", "versions", "download", "version", "latest"}

\* C12: with proxy_mode on, none of the catalog listing, update check, version
\* list, archive download and release manifest handlers answers 404 or 500 of
\* its own: such an answer is given only after upstream was tried.
C12_ProxyTriedBeforeGivingUp ==
    (proxy_mode /\ response.req[1] \in FallThroughHandlers
     /\ response.res.status \in {404, 500}) =>
        response.res.upstream # NoRequest

\* the manifest file the release lookup of the last request reads
RequestedManifest ==
    PlatformVersionFile(OrDefault(response.req[2].asset, "zed"),
                        OrDefault(response.req[2].os, "macos"),
                        OrDefault(response.req[2].arch, "x86_64"))

\* the manifest as the server has to return it: the upstream origin of the
\* download URL replaced by the configured domain, the rest as in the file
ReturnedManifest(m) ==
    /\ response.res.body[1] = "json" /\ response.res.body[2] = "version"
    /\ response.res.body[3].version = m.version
    /\ response.res.body[3].url[2] = m.url[2]
    /\ response.res.body[3].url[1] =
           IF config.domain.some /\ m.url[1] = "https://zed.dev"
           THEN config.domain.s ELSE m.url[1]

C14_AssetEndpointNeverProxies ==
    /\ response.req[1] = "release_asset" =>
        /\ response.res.upstream = NoRequest
        /\ ~ReleaseExists(<<response.req[3][2], response.req[3][3]>>) =>
               response.res.status = 404
    /\ response.req[1] = "proxy_api" =>
        ~(Len(response.req[3]) = 4 /\ response.req[3][1] = <<"releases">>)

\* C14 witness: with proxy_mode on a missing release file was answered 404.
C14_Witness ==
    /\ proxy_mode
    /\ response.req[1] = "release_asset"
    /\ ~ReleaseExists(<<response.req[3][2], response.req[3][3]>>)
    /\ response.res.status = 404

(***************************************************************************)
(* Claims about the catalog listing and the update check.                  *)
(***************************************************************************)
\* the ids parameter of the last request is absent or empty
EmptyIds == ~response.req[2].ids.present \/ response.req[2].ids.s = <<>>

\* C15: GET /extensions/updates without ids, or with empty ids, answers 200
\* with the empty list whatever the other filters, the catalog and proxy_mode
\* are, and does not contact upstream.
C15_EmptyIdsEmptyList ==
    (response.req[1] = "updates" /\ EmptyIds) =>
        /\ response.res.status = 200
        /\ response.res.body = <<"json", "extensions", <<>>>>
        /\ response.res.upstream = NoRequest

\* C15 witness: empty ids with another filter, on a catalog that has entries,
\* and on a missing catalog with proxy_mode on.
C15_Witness ==
    /\ response.req[1] = "updates"
    /\ response.req[2].ids.present /\ response.req[2].ids.s = <<>>
    /\ response.req[2].max_schema_version.present
    /\ \/ extensionsJson.state = "ok" /\ Len(extensionsJson.data) = 2
       \/ extensionsJson.state = "absent" /\ proxy_mode
    /\ response.res.status = 200

\* the ids the update check was asked for: the a,b,.. of ids=a,b,..
RequestedIds ==
    LET parts == Split(response.req[2].ids.s, ",", <<>>)
    IN  {parts[k] : k \in 1..Len(parts)}

\* lexicographic order of two strings: s <= t
LexLeq(s, t) ==
    \/ s = t
    \/ \E k \in 1..Len(t) :
        /\ k - 1 <= Len(s)
        /\ SubSeq(s, 1, k - 1) = SubSeq(t, 1, k - 1)
        /\ \/ Len(s) = k - 1
           \/ CharRank(s[k]) < CharRank(t[k])

\* the entry is within the schema bounds of the last request
WithinSchemaBounds(ext) ==
    LET q == response.req[2] IN
    /\ (q.min_schema_version.present /\ q.min_schema_version.ok) =>
           ext.schema_version >= q.min_schema_version.n
    /\ (q.max_schema_version.present /\ q.max_schema_version.ok) =>
           ext.schema_version <= q.max_schema_version.n

\* the wasm_api_version is within the wasm bounds of the last request, in
\* the lexicographic order of the strings
WasmWithinBounds(version) ==
    LET q == response.req[2] IN
    /\ q.min_wasm_api_version.present => LexLeq(q.min_wasm_api_version.s, version)
    /\ q.max_wasm_api_version.present => LexLeq(version, q.max_wasm_api_version.s)

\* the last request has a wasm bound
WasmBounded ==
    response.req[2].min_wasm_api_version.present
    \/ response.req[2].max_wasm_api_version.present

\* the entries of the sequence, and the sequence as a subsequence of another
Entries(l) == {l[k] : k \in 1..Len(l)}
InOrderOf(l, whole) ==
    /\ \A i, j \in 1..Len(l) : i # j => l[i] # l[j]
    /\ \A i, j \in 1..Len(l) :
        i < j => \E a, b \in 1..Len(whole) : a < b /\ whole[a] = l[i] /\ whole[b] = l[j]

\* the update check has answered from the catalog
AnsweredUpdates ==
    /\ response.req[1] = "updates" /\ ~EmptyIds
    /\ extensionsJson.state = "ok"

\* C16 as stated: for a non-empty id set the update check returns exactly the
\* entries whose id is in the set and whose schema_version and
\* wasm_api_version are within every supplied bound.
C16_ExactlyWithinBounds ==
    AnsweredUpdates =>
        /\ response.res.status = 200
        /\ Entries(response.res.body[3]) =
               {e \in Entries(extensionsJson.data) :
                    /\ e.id \in RequestedIds
                    /\ WithinSchemaBounds(e)
                    /\ WasmBounded =>
                           /\ e.wasm_api_version # NoWasm
                           /\ WasmWithinBounds(e.wasm_api_version)}

\* C16 amended: an entry without wasm_api_version is returned whatever the
\* wasm bounds are; the wasm bounds are compared as strings.
C16_ExactlyWithinBoundsIfVersioned ==
    AnsweredUpdates =>
        /\ response.res.status = 200
        /\ response.res.upstream = NoRequest
        /\ InOrderOf(response.res.body[3], extensionsJson.data)
        /\ Entries(response.res.body[3]) =
               {e \in Entries(extensionsJson.data) :
                    /\ e.id \in RequestedIds
                    /\ WithinSchemaBounds(e)
                    /\ e.wasm_api_version # NoWasm =>
                           WasmWithinBounds(e.wasm_api_version)}

\* C16 witness: of two requested entries one is left out by a wasm bound, and
\* an entry without wasm_api_version is returned under a wasm bound.
C16_Witness ==
    /\ AnsweredUpdates
    /\ WasmBounded
    /\ extensionsJson.data = <<ExtAb, ExtC>>
    /\ RequestedIds = {<<"a", "b">>, <<"c">>}
    /\ response.res.body[3] = <<ExtC>>

\* two characters are the same letter, whatever their case
SameLetter(c, d) ==
    c = d \/ {c, d} \in {{"A", "a"}, {"B", "b"}, {"C", "c"}}

\* t occurs in s when case is ignored
OccursIgnoringCase(t, s) ==
    \E i \in 1..(Len(s) + 1) :
        /\ i + Len(t) - 1 <= Len(s)
        /\ \A k \in 1..Len(t) : SameLetter(s[i + k - 1], t[k])

\* the entry satisfies every filter of the last request; a filter that is
\* absent, an empty provides and a maximum that is no integer exclude nothing
SatisfiesFilters(ext) ==
    LET q == response.req[2] IN
    /\ q.filter.present =>
           \/ OccursIgnoringCase(q.filter.s, ext.id)
           \/ OccursIgnoringCase(q.filter.s, ext.name)
           \/ OccursIgnoringCase(q.filter.s, ext.description)
    /\ (q.max_schema_version.present /\ q.max_schema_version.ok) =>
           ext.schema_version <= q.max_schema_version.n
    /\ (q.provides.present /\ q.provides.s # "") => q.provides.s \in ext.provides

\* C17: the catalog listing returns exactly the entries of extensions.json
\* that satisfy all supplied filters, in the order of extensions.json.
C17_ListingIsFilteredCatalog ==
    (response.req[1] = "index" /\ extensionsJson.state = "ok") =>
        /\ response.res.status = 200
        /\ InOrderOf(response.res.body[3], extensionsJson.data)
        /\ Entries(response.res.body[3]) =
               {e \in Entries(extensionsJson.data) : SatisfiesFilters(e)}

\* C17 witness: a filter in upper case together with a required capability
\* keeps the second entry of the catalog and drops the first.
C17_Witness ==
    /\ response.req[1] = "index"
    /\ response.req[2].filter = StrParam(<<"A", "B">>)
    /\ response.req[2].provides = NameParam("themes")
    /\ extensionsJson = [state |-> "ok", data |-> <<ExtC, ExtAb>>]
    /\ response.res.body[3] = <<ExtAb>>

(***************************************************************************)
(* ExtensionVersionTracker on its own: the operations of zed/extension.rs  *)
(* applied to any tracker.                                                 *)
(***************************************************************************)
\* the trackers over the ids and versions of the catalog
Trackers == UNION {[D -> AcqVersions] : D \in SUBSET Ids}

\* the state the tracker operations leave alone
nonTrackerVars ==
    <<acqVars, legacyFiles, unreadable, proxy_mode, response, extensionsJson,
      config, manifests, releaseFiles, ix, rel, ver>>

\* self.merge(other); n counts the merges of the same other in a row
Merge(other) ==
    /\ trk' = [trk EXCEPT !.op = "merge", !.before = trk.self,
                          !.self = merge(trk.self, other), !.other = other,
                          !.n = IF trk.op = "merge" /\ trk.other = other
                                THEN 2 ELSE 1]
    /\ UNCHANGED nonTrackerVars

\* self.update_extension(&extension)
UpdateExtension(id, version) ==
    /\ trk' = [trk EXCEPT !.op = "update", !.before = trk.self,
                          !.self = update_extension(trk.self, id, version),
                          !.ext = <<id, version>>, !.n = 0]
    /\ UNCHANGED nonTrackerVars

\* self.has_newer_version(&extension)
HasNewerVersion(id, version) ==
    /\ trk' = [trk EXCEPT !.op = "has_newer", !.before = trk.self,
                          !.ext = <<id, version>>,
                          !.out = has_newer_version(trk.self, id, version),
                          !.n = 0]
    /\ UNCHANGED nonTrackerVars

\* any tracker, no operation applied yet
InitTracker ==
    /\ catalog = [i \in Ids |-> V1_2_0]
    /\ trackerFile = [exists |-> FALSE, data |-> EmptyTracker]
    /\ phase = "idle"
    /\ opts = DefaultOptions
    /\ runs = 0
    /\ loaded = EmptyTracker
    /\ version_tracker = EmptyTracker
    /\ w = [i \in Ids |-> IdleWorker]
    /\ permits = MAX_CONCURRENT_DOWNLOADS
    /\ mergeIdx = 1
    /\ hist = NoHist
    /\ ix = IdleIndex
    /\ rel = IdleRelease
    /\ ver = IdleVersions
    /\ NoExtensionCache
    /\ NoReleaseCache
    /\ extensionsJson = AbsentJson
    /\ config = DefaultConfig
    /\ proxy_mode = FALSE
    /\ response = NoResponse
    /\ trk \in {[NoTrackers EXCEPT !.self = t, !.before = t] : t \in Trackers}

NextTracker ==
    \/ \E other \in Trackers : Merge(other)
    \/ \E id \in Ids, version \in AcqVersions : UpdateExtension(id, version)
    \/ \E id \in Ids, version \in AcqVersions : HasNewerVersion(id, version)

SpecTracker == InitTracker /\ [][NextTracker]_vars

\* C18: after self.merge(other) every key of other maps to the value of other
\* and every other key of self keeps its value; merging the same tracker a
\* second time changes nothing.
C18_MergeLastWriteWins ==
    trk.op = "merge" =>
        /\ DOMAIN trk.self = DOMAIN trk.before \cup DOMAIN trk.other
        /\ \A k \in DOMAIN trk.other : trk.self[k] = trk.other[k]
        /\ \A k \in DOMAIN trk.before \ DOMAIN trk.other : trk.self[k] = trk.before[k]
        /\ trk.n = 2 => trk.self = trk.before

\* C18 witness: {a: 1.2.0} merged with {a: 1.10.0} is {a: 1.10.0}, and the
\* merge was applied twice.
C18_Witness ==
    /\ trk.op = "merge" /\ trk.n = 2
    /\ trk.other = [k \in {"a"} |-> V1_10_0]
    /\ trk.self = [k \in {"a"} |-> V1_10_0]

ExtAbNew == [ExtAb EXCEPT !.version = V1_10_0, !.download_count = 7]

\* the place of an id in upstream's listing
ListingRank(id) == CHOOSE k \in 1..3 : <<ExtAb.id, ExtB.id, ExtC.id>>[k] = id

\* what upstream may return to one fetch of the index: any entries, listed by
\* id; two snapshots of one id come in either order (the order of the others
\* is lost in the map)
FetchResults ==
    {l \in DistinctSeqs(ExtensionPool \cup {ExtAbNew}, MaxFetchLen) :
        \A i, j \in 1..Len(l) : i < j => ListingRank(l[i].id) <= ListingRank(l[j].id)}

\* the values of --provides
ProvidesArgs == {<<>>, <<"themes">>, <<"languages", "themes">>}

RECURSIVE InsertAll_KeepFirst(_, _)
InsertAll_KeepFirst(map, exts) ==
    IF exts = <<>> THEN map
    ELSE InsertAll_KeepFirst(
             [k \in DOMAIN map \cup {Head(exts).id} |->
                 IF k \in DOMAIN map THEN map[k] ELSE Head(exts)],
             Tail(exts))

RECURSIVE InsertAll_Accumulate(_, _)
InsertAll_Accumulate(map, exts) ==
    IF exts = <<>> THEN map
    ELSE InsertAll_Accumulate(
             [k \in DOMAIN map \cup {Head(exts).id} |->
                 IF k # Head(exts).id THEN map[k]
                 ELSE IF k \in DOMAIN map
                 THEN [Head(exts) EXCEPT !.download_count =
                          (@ + map[k].download_count) % 16]
                 ELSE Head(exts)],
             Tail(exts))

\* map.insert(ext.id.clone(), ext) for every entry of a fetch result, in order
RECURSIVE InsertAll(_, _)
InsertAll(map, exts) ==
    IF exts = <<>> THEN map
    ELSE InsertAll([k \in DOMAIN map \cup {Head(exts).id} |->
                        IF k = Head(exts).id THEN Head(exts) ELSE map[k]],
                   Tail(exts))

\* the capabilities of the entries of a fetch result
CapsOf(exts) == UNION {exts[k].provides : k \in 1..Len(exts)}

\* map.into_values().collect(): the values in any order
Collected(map) ==
    {l \in [1..Cardinality(DOMAIN map) -> {map[k] : k \in DOMAIN map}] :
        \A i, j \in 1..Len(l) : i # j => l[i] # l[j]}

\* the place of e in a sequence sorted by download_count, highest first: after
\* every entry that does not compare greater (the sort is stable)
InsertSorted(sorted, e) ==
    LET n == Cardinality({k \in 1..Len(sorted) :
                            sorted[k].download_count >= e.download_count})
    IN  SubSeq(sorted, 1, n) \o <<e>> \o SubSeq(sorted, n + 1, Len(sorted))

sort_by_Unsorted(extensions, sorted) == extensions

\* extensions.sort_by(|a, b| b.download_count.cmp(&a.download_count))
RECURSIVE sort_by(_, _)
sort_by(extensions, sorted) ==
    IF extensions = <<>> THEN sorted
    ELSE sort_by(Tail(extensions), InsertSorted(sorted, Head(extensions)))

\* the state the catalog builder leaves alone
nonIndexVars ==
    <<acqVars, legacyFiles, unreadable, proxy_mode, response, config, manifests,
      releaseFiles, trk, rel, ver>>

\* download_extension_index is called, once in an invocation of the command
StartIndex(provides) ==
    /\ ix.pc = "idle"
    /\ ix' = [IdleIndex EXCEPT !.pc = IF provides = <<>> THEN "initial" ELSE "provides",
                               !.todo = provides]
    /\ UNCHANGED <<nonIndexVars, extensionsJson>>

\* a fetch failed: the ? operator returns the error
FetchFailed == [ix EXCEPT !.pc = "done", !.result = "err"]

\* client.get_extensions_index(None) and the merge of its result
FetchInitial ==
    /\ ix.pc = "initial"
    /\ \/ ix' = FetchFailed
       \/ \E exts \in FetchResults :
            ix' = [ix EXCEPT !.map = InsertAll(ix.map, exts), !.caps = CapsOf(exts),
                             !.pc = "caps", !.fetched = Append(ix.fetched, exts)]
    /\ UNCHANGED <<nonIndexVars, extensionsJson>>

FetchCap_WritesPartial(cap) ==
    /\ ix.pc = "caps"
    /\ cap \in ix.caps
    /\ \/ /\ ix' = FetchFailed
          /\ \E extensions \in Collected(ix.map) :
                extensionsJson' = [state |-> "ok", data |-> sort_by(extensions, <<>>)]
       \/ /\ \E exts \in FetchResults :
                ix' = [ix EXCEPT !.map = InsertAll(ix.map, exts),
                                 !.caps = ix.caps \ {cap},
                                 !.fetched = Append(ix.fetched, exts)]
          /\ UNCHANGED extensionsJson
    /\ UNCHANGED nonIndexVars

\* client.get_extensions_index(Some(cap)) for a capability of the set, in the
\* order the HashSet yields them
FetchCap(cap) ==
    /\ ix.pc = "caps"
    /\ cap \in ix.caps
    /\ \/ ix' = FetchFailed
       \/ \E exts \in FetchResults :
            ix' = [ix EXCEPT !.map = InsertAll(ix.map, exts), !.caps = ix.caps \ {cap},
                             !.fetched = Append(ix.fetched, exts)]
    /\ UNCHANGED <<nonIndexVars, extensionsJson>>

\* client.get_extensions_index(Some(prov)) for the next value of --provides
FetchProvides ==
    /\ ix.pc = "provides"
    /\ ix.todo # <<>>
    /\ \/ ix' = FetchFailed
       \/ \E exts \in FetchResults :
            ix' = [ix EXCEPT !.map = InsertAll(ix.map, exts), !.todo = Tail(ix.todo),
                             !.fetched = Append(ix.fetched, exts)]
    /\ UNCHANGED <<nonIndexVars, extensionsJson>>

\* all fetches are done: collect, sort, write extensions.json; when
\* create_dir_all or the write fails the file is as it was, or cut short when
\* the write fails after the file was truncated
WriteIndex ==
    /\ \/ ix.pc = "caps" /\ ix.caps = {}
       \/ ix.pc = "provides" /\ ix.todo = <<>>
    /\ \E extensions \in Collected(ix.map) :
        \/ /\ extensionsJson' = [state |-> "ok", data |-> sort_by(extensions, <<>>)]
           /\ ix' = [ix EXCEPT !.pc = "done", !.result = "ok",
                               !.collected = extensions]
        \/ /\ extensionsJson' \in {extensionsJson, MalformedJson}
           /\ ix' = [ix EXCEPT !.pc = "done", !.result = "err"]
    /\ UNCHANGED nonIndexVars

\* the extensions.json earlier invocations may have left
PriorIndexFiles == {AbsentJson, [state |-> "ok", data |-> <<ExtC, ExtAb>>]}

\* a cache directory with the extensions.json of earlier invocations, no
\* refresh is running
InitIndex ==
    /\ catalog = [i \in Ids |-> V1_2_0]
    /\ trackerFile = [exists |-> FALSE, data |-> EmptyTracker]
    /\ phase = "idle"
    /\ opts = DefaultOptions
    /\ runs = 0
    /\ loaded = EmptyTracker
    /\ version_tracker = EmptyTracker
    /\ w = [i \in Ids |-> IdleWorker]
    /\ permits = MAX_CONCURRENT_DOWNLOADS
    /\ mergeIdx = 1
    /\ hist = NoHist
    /\ trk = NoTrackers
    /\ NoExtensionCache
    /\ NoReleaseCache
    /\ config = DefaultConfig
    /\ proxy_mode = FALSE
    /\ response = NoResponse
    /\ extensionsJson \in PriorIndexFiles
    /\ ix = IdleIndex
    /\ rel = IdleRelease
    /\ ver = IdleVersions

NextIndex ==
    \/ \E provides \in ProvidesArgs : StartIndex(provides)
    \/ FetchInitial
    \/ \E cap \in {"themes", "languages"} : FetchCap(cap)
    \/ FetchProvides
    \/ WriteIndex

SpecIndex == InitIndex /\ [][NextIndex]_vars

\* C20: every extensions.json the catalog builder has written is sorted by
\* download_count, highest first.
C20_CatalogSorted ==
    extensionsJson.state = "ok" =>
        \A i \in 1..(Len(extensionsJson.data) - 1) :
            extensionsJson.data[i].download_count
                >= extensionsJson.data[i + 1].download_count

\* C20 witness: the map yielded its values in another order than that of the
\* download counts, and the written catalog has three entries.
C20_Witness ==
    /\ ix.result = "ok"
    /\ Len(ix.collected) = 3
    /\ ix.collected[1].download_count < ix.collected[3].download_count
    /\ extensionsJson.state = "ok"
    /\ extensionsJson.data # ix.collected
    /\ Len(extensionsJson.data) = 3

(***************************************************************************)
(* The catalog builder: deduplication, merge, failing fetches.             *)
(***************************************************************************)
\* all entries the refresh has fetched, in the order they were merged
RECURSIVE Concat(_)
Concat(results) ==
    IF results = <<>> THEN <<>> ELSE Head(results) \o Concat(Tail(results))

\* the last entry with this id among the fetched entries
LastSnapshot(entries, id) ==
    LET at == {k \in 1..Len(entries) : entries[k].id = id}
    IN  entries[CHOOSE k \in at : \A l \in at : l <= k]

\* C21: a written catalog holds every id at most once, holds exactly the ids
\* that occur in a merged fetch result, and holds for each id the snapshot of
\* the last fetch that returned it.
C21_DedupLastSnapshot ==
    (ix.result = "ok" /\ extensionsJson.state = "ok") =>
        LET data == extensionsJson.data
            entries == Concat(ix.fetched)
        IN  /\ \A i, j \in 1..Len(data) : data[i].id = data[j].id => i = j
            /\ {data[i].id : i \in 1..Len(data)}
                 = {entries[k].id : k \in 1..Len(entries)}
            /\ \A i \in 1..Len(data) : data[i] = LastSnapshot(entries, data[i].id)

\* C21 witness: the extension ab was returned by two fetches, first as the
\* newer and then as the older snapshot, and the written catalog holds the
\* older one, next to another extension.
C21_Witness ==
    /\ ix.result = "ok"
    /\ extensionsJson.state = "ok"
    /\ Len(ix.fetched) >= 2
    /\ \E k \in 1..Len(ix.fetched[1]) : ix.fetched[1][k] = ExtAbNew
    /\ \E k \in 1..Len(ix.fetched[2]) : ix.fetched[2][k] = ExtAb
    /\ \A n \in 3..Len(ix.fetched) : \A k \in 1..Len(ix.fetched[n]) :
            ix.fetched[n][k].id # ExtAb.id
    /\ \E i \in 1..Len(extensionsJson.data) : extensionsJson.data[i] = ExtAb
    /\ Len(extensionsJson.data) = 2

\* C22: merging a fetch result into the id-keyed map twice gives the map that
\* merging it once gives, for every fetch result and every map a refresh has
\* built.
C22_MergeIdempotent ==
    \A exts \in FetchResults :
        InsertAll(InsertAll(ix.map, exts), exts) = InsertAll(ix.map, exts)

\* C22 witness: a refresh has merged the same non-empty result twice in a row
\* into a map that held another snapshot of one of its ids.
C22_Witness ==
    /\ Len(ix.fetched) = 3
    /\ ix.fetched[2] = ix.fetched[3]
    /\ ix.fetched[1] = <<ExtAb, ExtB>>
    /\ ix.fetched[2] = <<ExtAbNew, ExtC>>
    /\ ix.map = InsertAll(InsertAll(<<>>, ix.fetched[1]), ix.fetched[2])

\* a fetch of the refresh is still to be made
FetchPending ==
    \/ ix.pc = "initial"
    \/ ix.pc = "caps" /\ ix.caps # {}
    \/ ix.pc = "provides" /\ ix.todo # <<>>

\* C23: a refresh that still has a fetch to make does not write
\* extensions.json, and when that fetch fails the refresh ends with an error,
\* extensions.json being what it was.
C23_FetchFailureAborts ==
    [][FetchPending =>
         /\ extensionsJson' = extensionsJson
         /\ Len(ix'.fetched) = Len(ix.fetched) =>
                (ix'.pc = "done" /\ ix'.result = "err")]_vars

\* C23 witness: a catalog was written by an earlier invocation; in this refresh
\* the initial fetch succeeded with other entries and a later fetch failed.
C23_Witness ==
    /\ ix.pc = "done"
    /\ ix.result = "err"
    /\ ix.collected = <<>>
    /\ Len(ix.fetched) = 1
    /\ ix.fetched[1] = <<ExtAbNew, ExtB>>
    /\ extensionsJson = [state |-> "ok", data |-> <<ExtC, ExtAb>>]

(***************************************************************************)
(* Claims about the tasks of the acquisition: sleeps, trackers, the        *)
(* all_versions loop.                                                      *)
(***************************************************************************)
\* C24: the rate-limit sleep is taken only between two versions of one
\* extension: a sleeping task has a version left to process, and it does not
\* hold the permit another extension's task is waiting for.
C24_SleepOnlyBetweenVersions ==
    \A id \in Ids :
        (phase = "workers" /\ w[id].pc = "sleeping") =>
            /\ w[id].idx < Len(w[id].versions)
            /\ ~(w[id].permit /\ \E j \in Ids : w[j].pc = "acquire")

\* a step in which the orchestrator merges the copies of some tasks
MergeStep == phase = "workers" /\ mergeIdx' > mergeIdx

\* the tasks whose copies a merge step merges
Merged == {IdOrder[k] : k \in mergeIdx..(mergeIdx' - 1)}

\* a step of the running tasks changes the private copy of one task at most,
\* and only that task's step does; the shared tracker changes in the
\* orchestrator's steps only
PrivateCopies ==
    (phase = "workers" /\ phase' = "workers") =>
        /\ \A i, j \in Ids :
            (w'[i].tracker # w[i].tracker /\ w'[j].tracker # w[j].tracker) => i = j
        /\ \A i \in Ids :
            w'[i].tracker # w[i].tracker =>
                (Active(i) /\ w'[i].log # w[i].log /\ version_tracker' = version_tracker)
        /\ version_tracker' # version_tracker => (MergeStep /\ w' = w)

\* C25 as stated: every task mutates its own copy only, the orchestrator
\* alone mutates the shared tracker, and no merge takes place while a task of
\* the run is still to complete.
C25_NoMergeWhileDownloading ==
    [][/\ PrivateCopies
       /\ MergeStep => \A i \in Ids : w[i].pc = "done"]_vars

\* C25 amended: every task mutates its own copy only, the orchestrator alone
\* mutates the shared tracker, and it merges the copy of a task only after
\* that task has completed; in async mode no merge takes place before every
\* task has completed.
C25_MergeAfterOwnTask ==
    [][/\ PrivateCopies
       /\ MergeStep =>
            /\ \A i \in Merged : w[i].pc = "done"
            /\ opts.async_mode => \A i \in Ids : w[i].pc = "done"]_vars

\* C25 witness: in throttled mode the copy of the first task has been merged
\* into the shared tracker, with an entry, while the second task downloads.
C25_Witness ==
    /\ phase = "workers"
    /\ ~opts.async_mode
    /\ mergeIdx = 2
    /\ IdOrder[1] \in DOMAIN version_tracker
    /\ w[IdOrder[2]].pc = "downloading"

\* the archive of a version of an extension is among the files on disk
ArchiveOnDisk(versioned, latest, id, version) ==
    IF opts.all_versions THEN <<id, version>> \in versioned
    ELSE latest[id] = version

\* C26: a task changes the entry of its extension only, and only to a version
\* whose archive is on disk at that moment; a step in which a download or a
\* write fails leaves the task's tracker as it was.
C26_TrackedOnlyWhenOnDisk ==
    [][(phase = "workers" /\ phase' = "workers") =>
        \A id \in Ids :
            /\ w'[id].tracker # w[id].tracker =>
                /\ id \in DOMAIN w'[id].tracker
                /\ ArchiveOnDisk(verFiles', latestFile', id, w'[id].tracker[id])
                /\ \A k \in DOMAIN w'[id].tracker \ {id} :
                        k \in DOMAIN w[id].tracker
                        /\ w'[id].tracker[k] = w[id].tracker[k]
            /\ Failed(id)' # Failed(id) =>
                (w'[id].tracker = w[id].tracker /\ verFiles' = verFiles
                 /\ latestFile' = latestFile)]_vars

\* C26 witness: an all_versions task whose first download failed and whose
\* second was written: its tracker holds the second version, not the first,
\* for which there is no archive.
C26_Witness ==
    /\ opts.all_versions
    /\ \E id \in Ids :
        /\ Failed(id) = {V1_10_0}
        /\ Written(id) = {V1_2_0}
        /\ <<id, V1_10_0>> \notin verFiles
        /\ w[id].tracker[id] = V1_2_0
        /\ id \notin DOMAIN loaded

\* the versions the loop of a task has reached, in the order it reached them
LoopEvent(e) == e[1] \in {"skip", "download"}
Reached(id) == SelectSeq(w[id].log, LoopEvent)
Skipped(id) == {e[2] : e \in {x \in Events(id) : x[1] = "skip"}}

\* C27: in all_versions mode the loop reaches the listed versions one by one
\* in the order of the list, once each; a version whose file exists is not
\* downloaded and not written, and is recorded in the tracker; any other
\* version is downloaded.
C27_AllVersionsLoop ==
    /\ [](opts.all_versions =>
            \A id \in Ids :
                /\ Len(Reached(id)) <= Len(w[id].versions)
                /\ \A k \in 1..Len(Reached(id)) : Reached(id)[k][2] = w[id].versions[k]
                /\ (w[id].pc = "done" /\ w[id].res = "ok" /\ w[id].versions # <<>>)
                        => Len(Reached(id)) = Len(w[id].versions)
                /\ w[id].pc = "downloading" => Reached(id) # <<>>
                /\ Skipped(id) \cap (Downloads(id) \cup Written(id)) = {})
    /\ [][(opts.all_versions /\ phase' = "workers") =>
            \A id \in Ids :
                Len(Reached(id)') > Len(Reached(id)) =>
                    LET e == Reached(id)'[Len(Reached(id)')] IN
                    /\ Len(Reached(id)') = Len(Reached(id)) + 1
                    /\ e[1] = "skip" <=> <<id, e[2]>> \in verFiles
                    /\ e[1] = "skip" =>
                        (verFiles' = verFiles /\ w'[id].tracker[id] = e[2]
                         /\ w'[id].pc = "loop")
                    /\ e[1] = "download" => w'[id].pc = "downloading"]_vars

\* C27 witness: a task has finished the loop having skipped the first listed
\* version, whose file existed, and downloaded and written the second.
C27_Witness ==
    /\ opts.all_versions
    /\ \E id \in Ids :
        /\ w[id].pc = "done"
        /\ w[id].res = "ok"
        /\ Reached(id) = <<<<"skip", V1_10_0>>, <<"download", V1_2_0>>>>
        /\ Written(id) = {V1_2_0}

(***************************************************************************)
(* zed/downloader.rs: download_zed_release, the release download.          *)
(***************************************************************************)
\* the platforms of the release download, in the order of its list
ReleasePlatformOrder == <<<<"zed", "linux", "x86_64">>, <<"zed", "macos", "x86_64">>>>

\* the JSON upstream answers to /api/releases/latest when the latest version
\* is version
UpstreamManifest(version) ==
    IF version = SegVersion THEN ManifestZed
    ELSE [version |-> version,
          url |-> <<UpstreamOrigin, "/api/releases/stable/0.2.0/zed.tar.gz">>]

\* the state the release download leaves alone
nonReleaseVars ==
    <<acqVars, legacyFiles, unreadable, proxy_mode, response, extensionsJson,
      config, releaseFiles, ix, trk, ver>>

\* the loop goes on with the next platform, or the function returns
NextPlatform ==
    [rel EXCEPT !.todo = Tail(rel.todo), !.version = <<>>,
                !.pc = IF Tail(rel.todo) = <<>> THEN "done" ELSE "manifest"]

\* download_zed_release is called: one invocation of `zedex get zed-release`
\* on the cache the earlier invocations left
StartRelease ==
    /\ rel.pc \in {"idle", "done", "panicked", "killed"}
    /\ rel' = [rel EXCEPT !.pc = "manifest", !.todo = ReleasePlatformOrder,
                          !.version = <<>>]
    /\ UNCHANGED <<nonReleaseVars, manifests>>

\* GET /api/releases/latest for the next platform, and what follows up to the
\* request of the archive: the manifest is written to
\* <asset>-<os>-<arch>.json, the directory of the version is created; every
\* unwrap that fails ends the process
FetchManifest ==
    /\ rel.pc = "manifest"
    /\ LET p == Head(rel.todo) IN
       \E outcome \in {"send_err", "status_err", "json_panic", "mkdir_panic",
                       "write_panic", "outdir_panic", "ok"} :
            CASE outcome \in {"send_err", "status_err"} ->
                    /\ rel' = NextPlatform
                    /\ UNCHANGED manifests
              [] outcome \in {"json_panic", "mkdir_panic"} ->
                    /\ rel' = [rel EXCEPT !.pc = "panicked"]
                    /\ UNCHANGED manifests
              [] outcome = "write_panic" ->
                    /\ rel' = [rel EXCEPT !.pc = "panicked"]
                    /\ manifests' \in {manifests, [manifests EXCEPT ![p] = MalformedJson]}
              [] OTHER ->
                    \E version \in ReleaseVersions :
                        /\ manifests' = [manifests EXCEPT ![p] =
                                [state |-> "ok", data |-> UpstreamManifest(version)]]
                        /\ rel' = IF outcome = "outdir_panic"
                                  THEN [rel EXCEPT !.pc = "panicked"]
                                  ELSE [rel EXCEPT !.pc = "archive", !.version = version]
    /\ UNCHANGED nonReleaseVars

\* GET download_url and the write of <version>/<asset>-<os>-<arch>.tar.gz: the
\* status of the response is not looked at, its body is written; File::create
\* empties a file that exists
FetchArchive ==
    /\ rel.pc = "archive"
    /\ LET f == <<rel.version, Head(rel.todo)>> IN
       \E outcome \in {"send_err", "bytes_err", "create_err", "write_err",
                       "ok", "status_err"} :
            rel' = [NextPlatform EXCEPT !.archives[f] =
                        CASE outcome = "write_err" -> "partial"
                          [] outcome = "ok" -> "archive"
                          [] outcome = "status_err" -> "error_page"
                          [] OTHER -> @]
    /\ UNCHANGED <<nonReleaseVars, manifests>>

\* the process is killed during the release download
KillRelease ==
    /\ rel.pc \in {"manifest", "archive"}
    /\ rel' = [rel EXCEPT !.pc = "killed"]
    /\ UNCHANGED <<nonReleaseVars, manifests>>

\* an empty release cache, no release download is running
InitRelease ==
    /\ AcquisitionIdle
    /\ ver = IdleVersions
    /\ NoExtensionCache
    /\ NoReleaseCache
    /\ config = DefaultConfig
    /\ proxy_mode = FALSE
    /\ response = NoResponse
    /\ extensionsJson = AbsentJson

NextRelease ==
    \/ StartRelease
    \/ FetchManifest
    \/ FetchArchive
    \/ KillRelease

SpecRelease == InitRelease /\ [][NextRelease]_vars

\* C30: when a release download has returned, every manifest of the release
\* cache has its archive: the file <version>/<asset>-<os>-<arch>.tar.gz of the
\* manifest's version is there, written whole from a successful response.
C30_ManifestHasArchive ==
    rel.pc = "done" =>
        \A p \in Platforms :
            manifests[p].state = "ok" =>
                rel.archives[<<manifests[p].data.version, p>>] = "archive"

(***************************************************************************)
(* Claims about versions that do not parse and about coexisting layouts.   *)
(***************************************************************************)
\* the listed versions that are no semantic versions
Unparsable(id) == {v \in Listed(id) : ~SemverParse(v).ok}

\* C28: a listed version that does not parse is passed over: it is never the
\* version best-available resolution serves, the highest parsable cached
\* version is served as if it were not listed, the legacy file and the miss
\* are answered as without it, and the handler answers no error of its own.
C28_UnparsableSkipped ==
    (response.req[1] = "download" /\ Unparsable(response.req[2]) # {}) =>
        LET id == response.req[2]
            res == response.res
        IN  /\ res.body[1] = "version" => res.body[3] \notin Unparsable(id)
            /\ (~Tier1Hit(id) /\ Tier2Hit(id)) =>
                (res.status = 200 /\ res.body = <<"version", id, Highest(id)>>)
            /\ (~Tier1Hit(id) /\ ~Tier2Hit(id) /\ Tier3Hit(id)) =>
                (res.status = 200 /\ res.body = <<"legacy", id, NoFile>>)
            /\ (~Tier1Hit(id) /\ ~Tier2Hit(id) /\ ~Tier3Hit(id)) =>
                IF proxy_mode THEN res.upstream = <<"download", id, NoFile>>
                ELSE res.status = 404
            /\ res.upstream = NoRequest => res.status \in {200, 404}

\* C28 witness: 1.2 is listed before a parsable version, both archives are
\* cached, there is no latest file, and the parsable version is served.
C28_Witness ==
    /\ response.req[1] = "download"
    /\ Unparsable(response.req[2]) # {}
    /\ \E v \in Unparsable(response.req[2]) :
            /\ <<response.req[2], v>> \in verFiles
            /\ Readable(VersionPath(response.req[2], v))
    /\ ~Tier1Hit(response.req[2])
    /\ response.res.status = 200
    /\ response.res.body[1] = "version"
    /\ SemverParse(response.res.body[3]).ok

\* C29: the archive served for GET /extensions/{id}/download is the one with
\* the highest version among the cached archives of all layouts: the latest
\* file is not served when a listed version above its version is cached.
C29_HighestAcrossLayouts ==
    (response.req[1] = "download" /\ response.res.body[1] = "latest") =>
        \A u \in Cached(response.req[2]) :
            Readable(VersionPath(response.req[2], u)) =>
                NumericLeq(u, response.res.body[3])

(***************************************************************************)
(* Claims about the proxied responses.                                     *)
(***************************************************************************)
\* a safelist of response headers of an archive download; the handlers name
\* none, and set-cookie is in no such list
HeaderSafelist == {"content-type", "content-length", "content-disposition"}

\* C31: a proxied archive download carries the status and the body of the
\* upstream response unchanged and no header outside the safelist.
C31_OnlySafelistedHeaders ==
    (/\ response.req[1] \in {"download", "version"}
     /\ response.res.upstream # NoRequest
     /\ response.answer.kind = "response") =>
        /\ response.res.status = response.answer.status
        /\ response.res.body = response.answer.body
        /\ response.res.headers \subseteq HeaderSafelist

\* C32: when the manifest of the platform is absent and proxy_mode is on, the
\* release lookup hands on what upstream answered: the status and the body of
\* the response are the status and the body of the upstream response, for a
\* 2xx and for any other status.
C32_ReleaseLookupVerbatim ==
    (/\ response.req[1] = "latest"
     /\ response.res.upstream # NoRequest
     /\ response.answer.kind = "response") =>
        /\ response.res.status = response.answer.status
        /\ response.res.body = response.answer.body

(***************************************************************************)
(* Claims about the files of the workers.                                  *)
(***************************************************************************)
\* the directory of an extension and the files in it
FilesOf(id) ==
    [dir |-> id \in dirs, versions |-> versionsJson[id], latest |-> latestFile[id],
     archives |-> {v \in AcqVersions : <<id, v>> \in verFiles}]

\* C33: a step that creates or writes a file below <extensions_dir>/<id>/ is
\* a step of the worker of id, which is inside download_extension, and of no
\* other worker: the workers of a run, which have distinct ids, write no
\* common path, in async and in throttled mode.
C33_WorkersWriteOwnDirectory ==
    [][\A id \in Ids :
        FilesOf(id)' # FilesOf(id) =>
            /\ Active(id)
            /\ w'[id] # w[id]
            /\ \A other \in Ids \ {id} : w'[other] = w[other]
                                          /\ FilesOf(other)' = FilesOf(other)]_vars

\* C33 witness: async mode, both workers are downloading at the same time and
\* both have written an archive into their directory.
C33_Witness ==
    /\ phase = "workers"
    /\ opts.async_mode
    /\ \A id \in Ids : w[id].pc = "downloading" /\ FilesOf(id).archives # {}

(***************************************************************************)
(* zed/version.rs: the release Version and its order.                      *)
(***************************************************************************)
V1_15 == <<"1", ".", "1", "5">>
V1_02_0 == <<"1", ".", "0", "2", ".", "0">>
V1_2_0_4 == <<"1", ".", "2", ".", "0", ".", "4">>

\* the version strings of the compared Versions: triples, a triple with a
\* leading zero, a triple followed by a fourth part, and two-part strings
VersionStrings == {V1_2_0, V1_10_0, V1_2, V1_15, V1_02_0, V1_2_0_4}

\* parts[k].parse::<u32>().ok(): a non-empty string of digits, leading zeros
\* allowed (the modelled parts are far below u32::MAX)
ParseU32(part) ==
    IF part # <<>> /\ \A k \in 1..Len(part) : IsDigit(part[k])
    THEN [ok |-> TRUE, n |-> NumVal(part, 0)]
    ELSE [ok |-> FALSE, n |-> 0]

\* Version::parse_semver: None for fewer than three parts or a part that is
\* no u32; the parts after the third are ignored
parse_semver(s) ==
    LET parts == SplitDots(s, <<>>) IN
    IF Len(parts) < 3 THEN [ok |-> FALSE, v |-> <<0, 0, 0>>]
    ELSE LET major == ParseU32(parts[1])
             minor == ParseU32(parts[2])
             patch == ParseU32(parts[3])
         IN  IF major.ok /\ minor.ok /\ patch.ok
             THEN [ok |-> TRUE, v |-> <<major.n, minor.n, patch.n>>]
             ELSE [ok |-> FALSE, v |-> <<0, 0, 0>>]

\* u32::cmp
CmpU32(x, y) == IF x < y THEN "Less" ELSE IF x = y THEN "Equal" ELSE "Greater"

\* String::cmp
CmpString(s, t) ==
    IF s = t THEN "Equal" ELSE IF StrGreater(s, t) THEN "Greater" ELSE "Less"

compare_Lexicographic(s, t) == CmpString(s, t)

\* Version::compare on the version strings of self and other
compare(s, t) ==
    LET x == parse_semver(s)
        y == parse_semver(t)
    IN  IF x.ok /\ y.ok
        THEN IF CmpU32(x.v[1], y.v[1]) = "Equal"
             THEN IF CmpU32(x.v[2], y.v[2]) = "Equal"
                  THEN CmpU32(x.v[3], y.v[3])
                  ELSE CmpU32(x.v[2], y.v[2])
             ELSE CmpU32(x.v[1], y.v[1])
        ELSE CmpString(s, t)

\* impl PartialEq for Version: self.version == other.version
eq(s, t) == s = t

nonVersionVars ==
    <<acqVars, legacyFiles, unreadable, proxy_mode, response, extensionsJson,
      config, manifests, releaseFiles, ix, trk, rel>>

\* Ord::cmp (which is compare) is applied to the pairs of the three Versions
CompareVersions ==
    /\ ~ver.cmp.done
    /\ ver' = [ver EXCEPT !.cmp = [done |-> TRUE,
                                   ab |-> compare(ver.a, ver.b),
                                   ba |-> compare(ver.b, ver.a),
                                   bc |-> compare(ver.b, ver.c),
                                   ac |-> compare(ver.a, ver.c)]]
    /\ UNCHANGED nonVersionVars

\* == is applied to the first two Versions
EqVersions ==
    /\ ~ver.eq.done
    /\ ver' = [ver EXCEPT !.eq = [done |-> TRUE, ab |-> eq(ver.a, ver.b)]]
    /\ UNCHANGED nonVersionVars

InitVersion ==
    /\ AcquisitionIdle
    /\ NoExtensionCache
    /\ NoReleaseCache
    /\ config = DefaultConfig
    /\ proxy_mode = FALSE
    /\ response = NoResponse
    /\ extensionsJson = AbsentJson
    /\ ver \in {[IdleVersions EXCEPT !.a = x, !.b = y, !.c = z] :
                    x \in VersionStrings, y \in VersionStrings, z \in VersionStrings}

NextVersion ==
    \/ CompareVersions
    \/ EqVersions

SpecVersion == InitVersion /\ [][NextVersion]_vars

(***************************************************************************)
(* Claims about the order of release Versions.                             *)
(***************************************************************************)
\* the version string is three or more dot-separated parts of which the first
\* three are numbers
IsTriple(s) ==
    LET parts == SplitDots(s, <<>>) IN
    /\ Len(parts) >= 3
    /\ \A k \in 1..3 : parts[k] # <<>> /\ \A i \in 1..Len(parts[k]) : IsDigit(parts[k][i])

\* the numbers of the first three parts
Triple(s) == [k \in 1..3 |-> NumVal(SplitDots(s, <<>>)[k], 0)]

\* the comparison of two sequences by their first differing element, rank
\* giving the order of the elements; a proper prefix is less
SeqOrder(s, t, rank(_)) ==
    IF s = t THEN "Equal"
    ELSE IF \E k \in 1..Len(s) :
                /\ \A i \in 1..(k - 1) : i <= Len(t) /\ s[i] = t[i]
                /\ (k > Len(t) \/ rank(s[k]) > rank(t[k]))
         THEN "Greater"
         ELSE "Less"

Same(n) == n

\* C34: when both version strings parse as numeric triples the result of
\* compare is the numeric comparison by major, then minor, then patch; when
\* one of them does not parse it is the lexicographic comparison of the two
\* strings.
C34_NumericElseLexicographic ==
    ver.cmp.done =>
        ver.cmp.ab = IF IsTriple(ver.a) /\ IsTriple(ver.b)
                     THEN SeqOrder(Triple(ver.a), Triple(ver.b), Same)
                     ELSE SeqOrder(ver.a, ver.b, CharRank)

\* C34 witness: 1.10.0 against 1.2.0 is Greater (numeric), and 1.10.0 against
\* 1.15, which has two parts, is Less (lexicographic).
C34_Witness ==
    /\ ver.cmp.done
    /\ ver.a = V1_10_0 /\ ver.b = V1_2_0 /\ ver.c = V1_15
    /\ ver.cmp.ab = "Greater"
    /\ ver.cmp.ac = "Less"

\* the result of comparing the other way round
Reverse(ord) ==
    IF ord = "Less" THEN "Greater" ELSE IF ord = "Greater" THEN "Less" ELSE "Equal"

\* C35: the order of Versions is a consistent total order over the version
\* strings: antisymmetric, transitive, and Equal exactly for Versions that
\* are ==.
C35_ConsistentTotalOrder ==
    (ver.cmp.done /\ ver.eq.done) =>
        /\ ver.cmp.ba = Reverse(ver.cmp.ab)
        /\ (ver.cmp.ab # "Greater" /\ ver.cmp.bc # "Greater") => ver.cmp.ac # "Greater"
        /\ (ver.cmp.ab = "Less" /\ ver.cmp.bc = "Less") => ver.cmp.ac = "Less"
        /\ (ver.cmp.ab = "Equal") = ver.eq.ab

(***************************************************************************)
(* Claims about versions.json and the versioned archives.                  *)
(***************************************************************************)
\* C36: every versioned archive <id>-<version>.tgz of a directory is listed
\* in the versions.json of that directory, after any sequence of all_versions
\* runs, so that best-available resolution can reach it.
C36_ArchivesAreListed ==
    phase = "idle" =>
        \A f \in verFiles :
            /\ versionsJson[f[1]].state = "ok"
            /\ \E k \in 1..Len(versionsJson[f[1]].data) : versionsJson[f[1]].data[k] = f[2]

(***************************************************************************)
(* Claims about the cache while the server answers.                        *)
(***************************************************************************)
\* the files under extensions_dir and releases_dir
CacheFiles ==
    <<dirs, latestFile, verFiles, versionsJson, legacyFiles, unreadable,
      extensionsJson, manifests, releaseFiles>>

\* C37: answering a request leaves every file under extensions_dir and
\* releases_dir as it was, whatever the endpoint, the cache and proxy_mode;
\* what a proxied request obtained from upstream is not written, so after a
\* proxied archive download the three tiers still miss.
C37_ServingLeavesCache ==
    /\ [][response' # response => CacheFiles' = CacheFiles]_vars
    /\ []((response.req[1] = "download" /\ response.res.upstream # NoRequest) =>
            (/\ ~Tier1Hit(response.req[2])
             /\ ~Tier2Hit(response.req[2])
             /\ ~Tier3Hit(response.req[2])))

\* C37 witness: upstream answered a proxied archive download with 200, and no
\* archive of the extension is in the cache.
C37_Witness ==
    /\ response.req[1] = "download"
    /\ response.res.upstream # NoRequest
    /\ response.answer.kind = "response"
    /\ response.res.status = 200
    /\ latestFile[response.req[2]] = NoFile
    /\ verFiles = {}
    /\ response.req[2] \notin legacyFiles

(***************************************************************************)
(* Termination of download_extensions.  Every await of a task returns (the *)
(* upstream calls and the sleep), and the runtime runs a task that can go  *)
(* on: weak fairness of every step of the tasks and of the orchestrator.   *)
(* The process is not killed.                                              *)
(***************************************************************************)
NextLive ==
    \/ \E o \in Options : runs < MaxLiveRuns /\ StartRun(o)
    \/ \E id \in Ids : Acquire(id)
    \/ \E id \in Ids : Begin(id)
    \/ \E id \in Ids : FetchVersions(id)
    \/ \E id \in Ids : LoopStep(id)
    \/ \E id \in Ids : DownloadDone(id)
    \/ \E id \in Ids : Wake(id)
    \/ MergeHandle
    \/ JoinAll
    \/ Persist

Fairness ==
    /\ \A id \in Ids :
        /\ WF_vars(Acquire(id))
        /\ WF_vars(Begin(id))
        /\ WF_vars(FetchVersions(id))
        /\ WF_vars(LoopStep(id))
        /\ WF_vars(DownloadDone(id))
        /\ WF_vars(Wake(id))
    /\ WF_vars(MergeHandle)
    /\ WF_vars(JoinAll)

SpecLive == Init /\ [][NextLive]_vars /\ Fairness

\* the tasks that hold a permit of the semaphore
Holders == {id \in Ids : w[id].permit}

\* C38: a run of download_extensions returns, in async and in throttled
\* mode; every task that waits for the permit gets it; a task that has ended,
\* with Ok or with Err, holds no permit; and when the function returns every
\* task has ended and, in throttled mode, every handle has been awaited.
C38_RunTerminates ==
    /\ (phase = "workers") ~> (phase = "returned")
    /\ \A id \in Ids : (w[id].pc = "acquire") ~> w[id].permit
    /\ [](\A id \in Ids : w[id].pc = "done" => ~w[id].permit)
    /\ [](permits + Cardinality(Holders) = MAX_CONCURRENT_DOWNLOADS)
    /\ [](phase = "returned" =>
            /\ \A id \in Ids : w[id].pc = "done"
            /\ mergeIdx = NumExt + 1)

\* C38 witness: a throttled run has returned after the task of the first
\* extension ended with Err and the task of the second with Ok.
C38_Witness ==
    /\ phase = "returned"
    /\ ~opts.async_mode
    /\ w[IdOrder[1]].res = "err"
    /\ w[IdOrder[2]].res = "ok"
    /\ permits = MAX_CONCURRENT_DOWNLOADS

\* C39: the catalog build is deterministic: the sequence written to
\* extensions.json is the same whatever order the map yields its values in,
\* entries of equal download_count included.
C39_CatalogDeterministic ==
    (ix.pc = "done" /\ ix.result = "ok") =>
        \A extensions \in Collected(ix.map) :
            sort_by(extensions, <<>>) = extensionsJson.data

====
